---- MODULE Spec2Model ----
(***************************************************************************)
(* A model of the Letta-Telegram relay (src/main.py): telegram_webhook,    *)
(* process_message_async, send_telegram_message, send_telegram_typing,     *)
(* split_message_at_boundary, blockquote_message, the /login and /logout   *)
(* handlers, get_all_projects and the shortcut functions.                  *)
(*                                                                         *)
(* The specifications of the module share its variables:                   *)
(*   Spec          one run of process_message_async for a regular message  *)
(*                 of a chat with credentials and an agent configured;     *)
(*   ToolSpec      the same run on a stream of tool calls;                 *)
(*   RouteSpec     process_message_async from its first line: credentials, *)
(*                 agent and project are resolved, then the stream runs;   *)
(*   HookSpec      telegram_webhook for regular messages and the calls it  *)
(*                 spawns;                                                 *)
(*   DispatchSpec  telegram_webhook alone, for every kind of update;       *)
(*   SplitSpec     split_message_at_boundary run on every text over a      *)
(*                 small alphabet, one loop iteration per step;            *)
(*   ParagraphSpec the same on ASCII texts of two paragraphs;              *)
(*   SendSpec      send_telegram_message: split, convert, post;            *)
(*   QuoteSpec     blockquote_message;                                     *)
(*   AccountSpec   /login, /logout and the regular messages of one user,   *)
(*                 each message handled by a call spawned for it;          *)
(*   PageSpec      get_all_projects against a paginating backend;          *)
(*   ShortcutSpec  the shortcut functions of one user, one call at a time; *)
(*   RaceSpec      the same with two calls at a time.                      *)
(***************************************************************************)
EXTENDS Integers, Sequences, FiniteSets, TLC

VARIABLES
    \* ---- split_message_at_boundary (src/main.py:2992-3048)
    text,           \* the argument text: a sequence of characters
    max_bytes,      \* the argument max_bytes
    remaining,      \* local: the untransmitted suffix
    chunks,         \* local: the chunks emitted so far / the returned list
    split_pos,      \* local: the split position of the last iteration
    spc,            \* position in the function: idle, entry, loop, returned
    \* ---- process_message_async (src/main.py:525-893)
    pc,             \* position in the function
    now,            \* time.time(), in seconds
    start_time,     \* local start_time
    last_activity,  \* local last_activity
    current_time,   \* local current_time of the event being handled
    event,          \* the loop variable: the event being handled
    n_events,       \* how many events the stream has yielded so far
    kinds,          \* history: the kind and size of each of them, in order
    handled,        \* how many of them the loop body has finished with
    pending,        \* send_telegram_message: the chunks not yet sent
    log,            \* what the Telegram API has received, in order
    open_attempts,  \* how many times create_stream was called
    failure,        \* the exception that left the stream's try block
    failure_at,     \* where it was raised
    \* ---- what process_message_async resolves before the stream (lines 535-667)
    message_text,   \* the text of the update ("no_text": it has none)
    credentials,    \* /data/users/<user_id>/credentials.json
    agent_file,     \* /data/chats/<chat_id>/agent.json
    env_agent_id,   \* the environment variable LETTA_AGENT_ID
    chat_project,   \* /data/chats/<chat_id>/project.json
    preferences,    \* /data/users/<user_id>/preferences.json
    agent_id,       \* local agent_id
    agent_name,     \* local agent_name
    \* ---- telegram_webhook and the units it spawns (src/main.py:903-998)
    inbound,        \* how many updates Telegram has still to post
    responses,      \* the answer of the webhook to each update posted
    units,          \* the process_message_async calls spawned, in order
    chat,           \* the messages one chat has received, in order
    webhook_secret, \* the environment variable TELEGRAM_WEBHOOK_SECRET
    calls,          \* history: each update posted and what the webhook did
    \* ---- send_telegram_message (src/main.py:3050-3095)
    bot_token,      \* the environment variable TELEGRAM_BOT_TOKEN
    sink,           \* position in the function: idle, entry, splitting,
                    \* sending, returned, raised
    part_index,     \* the loop variable i: how many chunks were sent
    posts,          \* the sendMessage requests posted, in order
    \* ---- blockquote_message (src/main.py:1141-1145)
    message,        \* the argument message
    quoted,         \* the returned text (empty: not called yet)
    \* ---- the account of one user: /login, /logout and the user's messages
    session,        \* history: the last successful /login or /logout
    tasks,          \* the process_message_async calls spawned for the user
    \* ---- get_all_projects (src/main.py:1115-1139)
    n_projects,     \* how many projects the backend holds
    offset,         \* local offset
    all_projects,   \* local all_projects
    requests,       \* history: the offset of each client.projects.list call
    page_pc,        \* position in the function: idle, loop, returned
    \* ---- /data/users/<user_id>/shortcuts.json and the calls that use it
    shortcuts,      \* the content of the file (NoFile: it does not exist)
    workers         \* the calls of the shortcut functions, one per invocation

splitVars == <<text, max_bytes, remaining, chunks, split_pos, spc>>

procVars == <<pc, now, start_time, last_activity, current_time, event, n_events,
              kinds, handled, pending, log, open_attempts, failure, failure_at>>

routeVars == <<message_text, credentials, agent_file, env_agent_id, chat_project,
               preferences, agent_id, agent_name>>

hookVars == <<inbound, responses, units, chat, webhook_secret, calls>>

sinkVars == <<bot_token, sink, part_index, posts>>

quoteVars == <<message, quoted>>

accountVars == <<session, tasks>>

pageVars == <<n_projects, offset, all_projects, requests, page_pc>>

shortcutVars == <<shortcuts, workers>>

vars == <<text, max_bytes, remaining, chunks, split_pos, spc,
          pc, now, start_time, last_activity, current_time, event, n_events,
          kinds, handled, pending, log, open_attempts, failure, failure_at,
          message_text, credentials, agent_file, env_agent_id, chat_project,
          preferences, agent_id, agent_name,
          inbound, responses, units, chat, webhook_secret, calls,
          bot_token, sink, part_index, posts, message, quoted,
          session, tasks, n_projects, offset, all_projects, requests, page_pc,
          shortcuts, workers>>

(***************************************************************************)
(* Bounds of the model.                                                    *)
(***************************************************************************)
MaxLen == 6         \* longest text given to the splitter, in characters
MaxBudget == 5      \* largest max_bytes given to the splitter (the least is 4)
MaxEvents == 3      \* most events one stream yields
MaxChunks == 2      \* most chunks one rendered message splits into
MaxInbound == 2     \* most updates Telegram posts to the webhook
MaxUnitSends == 3   \* most chat messages one spawned unit sends
MaxParagraphLen == 9    \* longest two-paragraph text given to the splitter
MaxUpdates == 4     \* most updates one user posts (commands and messages)
MaxTasks == 2       \* most regular messages among them
MaxProjects == 4    \* most projects the backend holds
PageLimit == 2      \* the page size get_all_projects asks for (19 in the code)
MaxRequests == 5    \* most pages get_all_projects is followed through
MaxCalls == 3       \* most calls of the shortcut functions for one user

(***************************************************************************)
(* Text.  A text is a sequence of characters; a character is named by a    *)
(* string.  "a" is an ASCII letter, "sp" the space, "nl" the newline,      *)
(* "e2" a two-byte code point (U+00E9) and "e4" a four-byte code point     *)
(* (U+1F600).  str.strip() removes "sp" and "nl".                          *)
(***************************************************************************)
Chars == {"a", "sp", "nl", "e2", "e4"}

Whitespace == {"sp", "nl"}

\* len(c.encode('utf-8')) of one character
CharBytes(c) == CASE c = "e2" -> 2 [] c = "e4" -> 4 [] OTHER -> 1

RECURSIVE Utf8Len(_)
\* len(s.encode('utf-8'))
Utf8Len(s) == IF s = <<>> THEN 0 ELSE CharBytes(Head(s)) + Utf8Len(Tail(s))

\* s[:i]
Prefix(s, i) == SubSeq(s, 1, i)

\* s[i:]
Suffix(s, i) == SubSeq(s, i + 1, Len(s))

RECURSIVE LStrip(_)
LStrip(s) == IF s # <<>> /\ Head(s) \in Whitespace THEN LStrip(Tail(s)) ELSE s

RECURSIVE RStrip(_)
RStrip(s) ==
    IF s # <<>> /\ s[Len(s)] \in Whitespace THEN RStrip(SubSeq(s, 1, Len(s) - 1)) ELSE s

\* s.strip()
Strip(s) == RStrip(LStrip(s))

SetMax(S) == CHOOSE x \in S : \A y \in S : y <= x

\* split_pos = None
NoPos == -1

\* the first hit of `for i in range(hi, 0, -1): if P(i): split_pos = i; break`,
\* NoPos when the loop ends without a hit
FirstFromRight(S) == IF S = {} THEN NoPos ELSE SetMax(S)

\* len(remaining[:i].encode('utf-8')) <= max_bytes
FitsBytesByChars(s, i, budget) == Len(Prefix(s, i)) <= budget

FitsBytes(s, i, budget) == Utf8Len(Prefix(s, i)) <= budget

\* 1. double newlines: remaining[i-1:i+1] == '\n\n' for i in len-1 .. 1
DoubleNewlinePos(s, budget) ==
    FirstFromRight({i \in 1..(Len(s) - 1) :
        s[i] = "nl" /\ s[i + 1] = "nl" /\ FitsBytes(s, i, budget)})

\* 2. and 3. a single boundary character: remaining[i] == c for i in len-1 .. 1
BoundaryPosFromZero(s, c, budget) ==
    FirstFromRight({i \in 0..(Len(s) - 1) : s[i + 1] = c /\ FitsBytes(s, i, budget)})

BoundaryPos(s, c, budget) ==
    FirstFromRight({i \in 1..(Len(s) - 1) : s[i + 1] = c /\ FitsBytes(s, i, budget)})

\* the text is cut after max_bytes characters, as if a character were a byte
HardCutAtBudget(s, budget) == IF budget < Len(s) THEN budget ELSE Len(s)

\* 4. hard cut: the largest prefix of whole code points that fits, i in len .. 1
HardCutPos(s, budget) ==
    FirstFromRight({i \in 1..Len(s) : FitsBytes(s, i, budget)})

\* natural boundaries are not looked for: every split is a hard cut
FindSplitPosHardCutOnly(s, budget) == HardCutPos(s, budget)

\* the rightmost boundary of any kind is taken, a paragraph break having no
\* precedence over a later newline or space
FindSplitPosRightmost(s, budget) ==
    LET found == {DoubleNewlinePos(s, budget), BoundaryPos(s, "nl", budget),
                  BoundaryPos(s, "sp", budget)} \ {NoPos}
    IN  IF found # {} THEN SetMax(found) ELSE HardCutPos(s, budget)

\* the split position one loop iteration chooses (lines 3005-3033)
FindSplitPos(s, budget) ==
    IF DoubleNewlinePos(s, budget) # NoPos THEN DoubleNewlinePos(s, budget)
    ELSE IF BoundaryPos(s, "nl", budget) # NoPos THEN BoundaryPos(s, "nl", budget)
    ELSE IF BoundaryPos(s, "sp", budget) # NoPos THEN BoundaryPos(s, "sp", budget)
    ELSE HardCutPos(s, budget)

\* remaining = remaining[split_pos:].strip()
RestAfterSkipping(s, pos) == Strip(Suffix(s, pos + 1))

RestAfter(s, pos) == Strip(Suffix(s, pos))

\* while remaining and len(remaining.encode('utf-8')) > max_bytes
LoopCondition(s, budget) == s # <<>> /\ Utf8Len(s) > budget

(***************************************************************************)
(* split_message_at_boundary, one step per loop iteration.                 *)
(***************************************************************************)
Texts == UNION {[1..n -> Chars] : n \in 0..MaxLen}

Budgets == 4..MaxBudget

\* an agent event (the payloads are listed with StreamEvents)
Event(type, payload, size) == [message_type |-> type, payload |-> payload, size |-> size]

\* the loop variable before the first event
NoEvent == Event("none", "blank", 0)

\* process_message_async is not running
ProcIdle ==
    /\ pc = "idle"
    /\ now = 0
    /\ start_time = 0
    /\ last_activity = 0
    /\ current_time = 0
    /\ event = NoEvent
    /\ n_events = 0
    /\ kinds = <<>>
    /\ handled = 0
    /\ pending = <<>>
    /\ log = <<>>
    /\ open_attempts = 0
    /\ failure = "none"
    /\ failure_at = "none"

\* get_chat_agent_info returns None: no agent.json and no LETTA_AGENT_ID
NoAgent == [agent_id |-> "none", agent_name |-> "none"]

\* agent.json of a chat that has selected agent a1, cached under the name A
StoredAgent == [agent_id |-> "a1", agent_name |-> "A"]

\* no message is being resolved
RouteIdle ==
    /\ message_text = "no_text"
    /\ credentials = "none"
    /\ agent_file = NoAgent
    /\ env_agent_id = "none"
    /\ chat_project = "none"
    /\ preferences = [offered |-> FALSE, accepted |-> FALSE]
    /\ agent_id = "none"
    /\ agent_name = "none"

\* line 672: the message of a user with credentials, in a chat with a
\* project and an agent whose cached name is the backend's
RouteResolved ==
    /\ message_text = "hello"
    /\ credentials = "stored"
    /\ agent_file = StoredAgent
    /\ env_agent_id = "none"
    /\ chat_project = "p1"
    /\ preferences = [offered |-> FALSE, accepted |-> FALSE]
    /\ agent_id = StoredAgent.agent_id
    /\ agent_name = StoredAgent.agent_name

\* the webhook has received nothing and nothing is to come
HookIdle ==
    /\ inbound = 0
    /\ responses = <<>>
    /\ units = <<>>
    /\ chat = <<>>
    /\ webhook_secret = "s1"
    /\ calls = <<>>

\* send_telegram_message is not running
SinkIdle ==
    /\ bot_token = "set"
    /\ sink = "idle"
    /\ part_index = 0
    /\ posts = <<>>

\* blockquote_message is not running
QuoteIdle ==
    /\ message = <<>>
    /\ quoted = <<>>

\* no update of the user has arrived
AccountIdle ==
    /\ session = "none"
    /\ tasks = <<>>

\* get_all_projects is not running
PageIdle ==
    /\ n_projects = 0
    /\ offset = 0
    /\ all_projects = <<>>
    /\ requests = <<>>
    /\ page_pc = "idle"

\* shortcuts.json does not exist
NoFile == [exists |-> FALSE]

\* no shortcut function is running
ShortcutIdle ==
    /\ shortcuts = NoFile
    /\ workers = <<>>

\* none of the functions above is running
OthersIdle == AccountIdle /\ PageIdle /\ ShortcutIdle

\* split_message_at_boundary is not running
SplitIdle ==
    /\ text = <<>>
    /\ max_bytes = 4096
    /\ remaining = <<>>
    /\ chunks = <<>>
    /\ split_pos = NoPos
    /\ spc = "idle"

SplitInit ==
    /\ OthersIdle
    /\ SinkIdle
    /\ QuoteIdle
    /\ ProcIdle
    /\ RouteIdle
    /\ HookIdle
    /\ text \in Texts
    /\ max_bytes \in Budgets
    /\ remaining = <<>>
    /\ chunks = <<>>
    /\ split_pos = NoPos
    /\ spc = "entry"

\* lines 2996-3001: the text fits and is returned as it is, or the loop starts
SplitEntry ==
    /\ spc = "entry"
    /\ IF Utf8Len(text) <= max_bytes
       THEN /\ chunks' = <<text>>
            /\ remaining' = remaining
            /\ spc' = "returned"
       ELSE /\ chunks' = <<>>
            /\ remaining' = text
            /\ spc' = "loop"
    /\ UNCHANGED <<text, max_bytes, split_pos>>
    /\ UNCHANGED <<procVars, routeVars, hookVars, sinkVars, quoteVars, accountVars, pageVars, shortcutVars>>

\* lines 3003-3042: one iteration of the while loop
SplitIterate ==
    /\ spc = "loop"
    /\ LoopCondition(remaining, max_bytes)
    /\ split_pos' = FindSplitPos(remaining, max_bytes)
    /\ IF split_pos' \notin {NoPos, 0}       \* if split_pos:
       THEN /\ chunks' = IF Strip(Prefix(remaining, split_pos')) # <<>>
                         THEN Append(chunks, Strip(Prefix(remaining, split_pos')))
                         ELSE chunks
            /\ remaining' = RestAfter(remaining, split_pos')
            /\ spc' = "loop"
       ELSE \* the safety fallback: break
            /\ chunks' = IF remaining # <<>> THEN Append(chunks, remaining) ELSE chunks
            /\ remaining' = remaining
            /\ spc' = "returned"
    /\ UNCHANGED <<text, max_bytes>>
    /\ UNCHANGED <<procVars, routeVars, hookVars, sinkVars, quoteVars, accountVars, pageVars, shortcutVars>>

\* lines 3044-3048: the loop condition is false; the rest is appended
SplitReturn ==
    /\ spc = "loop"
    /\ ~LoopCondition(remaining, max_bytes)
    /\ chunks' = IF remaining # <<>> THEN Append(chunks, remaining) ELSE chunks
    /\ spc' = "returned"
    /\ UNCHANGED <<text, max_bytes, remaining, split_pos>>
    /\ UNCHANGED <<procVars, routeVars, hookVars, sinkVars, quoteVars, accountVars, pageVars, shortcutVars>>

SplitNext == SplitEntry \/ SplitIterate \/ SplitReturn

SplitSpec == SplitInit /\ [][SplitNext]_vars

(***************************************************************************)
(* split_message_at_boundary on ASCII texts of two paragraphs: letters and *)
(* spaces with one paragraph break (two newlines) between them.  These are *)
(* the texts of the example "9000 bytes, a paragraph break at byte 3500,   *)
(* budget 4096", at the sizes a text of MaxParagraphLen characters allows. *)
(***************************************************************************)
AsciiLines == UNION {[1..n -> {"a", "sp"}] : n \in 1..(MaxParagraphLen - 3)}

ParagraphTexts ==
    {x \o <<"nl", "nl">> \o y : x \in AsciiLines, y \in AsciiLines}

ParagraphInit ==
    /\ OthersIdle
    /\ SinkIdle
    /\ QuoteIdle
    /\ ProcIdle
    /\ RouteIdle
    /\ HookIdle
    /\ text \in {t \in ParagraphTexts : Len(t) <= MaxParagraphLen}
    /\ max_bytes \in Budgets
    /\ remaining = <<>>
    /\ chunks = <<>>
    /\ split_pos = NoPos
    /\ spc = "entry"

ParagraphSpec == ParagraphInit /\ [][SplitNext]_vars

(***************************************************************************)
(* send_telegram_message (lines 3050-3095): the text is split first, then  *)
(* each chunk is converted to MarkdownV2 and posted.  "dot" is the full    *)
(* stop, one of the characters MarkdownV2 reserves, and "bs" the backslash *)
(* that escapes it; both are one byte long.  The budget of the splitter    *)
(* stands for its default of 4096 bytes.                                   *)
(***************************************************************************)
SinkChars == {"a", "sp", "dot"}

SinkTexts == UNION {[1..n -> SinkChars] : n \in 0..MaxLen}

\* special_chars of the fallback (line 2986), as far as SinkChars has them
SpecialChars == {"dot"}

RECURSIVE Escape(_)
\* for char in special_chars: escaped_text = escaped_text.replace(char, f'\\{char}')
Escape(s) ==
    IF s = <<>> THEN <<>>
    ELSE (IF Head(s) \in SpecialChars THEN <<"bs", Head(s)>> ELSE <<Head(s)>>)
             \o Escape(Tail(s))

\* telegramify_markdown.markdownify(text) of a text without markup: the
\* reserved characters are escaped
Markdownify(s) == Escape(s)

\* convert_to_telegram_markdown: the library's conversion, or the fallback
\* when the library raises
ConvertToTelegramMarkdown(s, conversion) ==
    IF conversion = "converted" THEN Markdownify(s) ELSE Escape(s)

\* response.status_code of sendMessage: accepted, or rejected as unparsable
StatusCodes == {200, 400}

SendInit ==
    /\ OthersIdle
    /\ ProcIdle
    /\ RouteIdle
    /\ HookIdle
    /\ QuoteIdle
    /\ text \in SinkTexts
    /\ max_bytes \in Budgets
    /\ remaining = <<>>
    /\ chunks = <<>>
    /\ split_pos = NoPos
    /\ spc = "idle"
    /\ bot_token \in {"set", "none"}
    /\ sink = "entry"
    /\ part_index = 0
    /\ posts = <<>>

\* lines 3055-3058: without a bot token nothing is sent
SendWithoutToken ==
    /\ sink = "entry"
    /\ bot_token = "none"
    /\ sink' = "returned"
    /\ UNCHANGED <<bot_token, part_index, posts>>
    /\ UNCHANGED <<splitVars, procVars, routeVars, hookVars, quoteVars, accountVars, pageVars, shortcutVars>>

\* line 3061: chunks = split_message_at_boundary(text)
SendSplits ==
    /\ sink = "entry"
    /\ bot_token = "set"
    /\ sink' = "splitting"
    /\ spc' = "entry"
    /\ UNCHANGED <<bot_token, part_index, posts>>
    /\ UNCHANGED <<text, max_bytes, remaining, chunks, split_pos>>
    /\ UNCHANGED <<procVars, routeVars, hookVars, quoteVars, accountVars, pageVars, shortcutVars>>

\* lines 3069-3084: one iteration of the loop over the chunks; a status
\* other than 200 raises, and the handler at line 3092 raises again
SendPost ==
    /\ sink \in {"splitting", "sending"}
    /\ spc = "returned"
    /\ part_index < Len(chunks)
    /\ \E conversion \in {"converted", "fallback"}, status \in StatusCodes :
        /\ posts' = Append(posts,
                [part |-> part_index + 1,
                 text |-> ConvertToTelegramMarkdown(chunks[part_index + 1], conversion),
                 parse_mode |-> "MarkdownV2",
                 status_code |-> status])
        /\ IF status # 200
           THEN /\ sink' = "raised"
                /\ UNCHANGED part_index
           ELSE /\ sink' = "sending"
                /\ part_index' = part_index + 1
    /\ UNCHANGED bot_token
    /\ UNCHANGED <<splitVars, procVars, routeVars, hookVars, quoteVars, accountVars, pageVars, shortcutVars>>

\* the loop over the chunks is over
SendReturns ==
    /\ sink \in {"splitting", "sending"}
    /\ spc = "returned"
    /\ part_index = Len(chunks)
    /\ sink' = "returned"
    /\ UNCHANGED <<bot_token, part_index, posts>>
    /\ UNCHANGED <<splitVars, procVars, routeVars, hookVars, quoteVars, accountVars, pageVars, shortcutVars>>

SendNext ==
    \/ SendWithoutToken
    \/ SendSplits
    \/ SplitEntry
    \/ SplitIterate
    \/ SplitReturn
    \/ SendPost
    \/ SendReturns

SendSpec == SendInit /\ [][SendNext]_vars

(***************************************************************************)
(* blockquote_message (lines 1141-1145).  "gt" is the character '>'.       *)
(***************************************************************************)
QuoteChars == {"a", "sp", "nl", "gt"}

QuoteTexts == UNION {[1..n -> QuoteChars] : n \in 0..MaxLen}

RECURSIVE FirstLine(_)
\* the characters before the first newline
FirstLine(s) ==
    IF s = <<>> \/ Head(s) = "nl" THEN <<>> ELSE <<Head(s)>> \o FirstLine(Tail(s))

RECURSIVE SplitLines(_)
\* s.split('\n'): one line more than there are newlines
SplitLines(s) ==
    IF Len(FirstLine(s)) = Len(s) THEN <<s>>
    ELSE <<FirstLine(s)>> \o SplitLines(Suffix(s, Len(FirstLine(s)) + 1))

RECURSIVE JoinLines(_)
\* '\n'.join(lines)
JoinLines(lines) ==
    IF Len(lines) = 0 THEN <<>>
    ELSE IF Len(lines) = 1 THEN lines[1]
    ELSE lines[1] \o <<"nl">> \o JoinLines(Tail(lines))

\* the marker f"> {line}" puts before a line
QuoteMarker == <<"gt", "sp">>

\* only the lines that are not empty are quoted
BlockquoteNonEmptyLines(s) ==
    LET lines == SplitLines(s)
    IN  JoinLines([k \in 1..Len(lines) |->
            IF lines[k] = <<>> THEN <<>> ELSE QuoteMarker \o lines[k]])

\* '\n'.join([f"> {line}" for line in lines])
Blockquote(s) ==
    LET lines == SplitLines(s)
    IN  JoinLines([k \in 1..Len(lines) |-> QuoteMarker \o lines[k]])

QuoteInit ==
    /\ OthersIdle
    /\ ProcIdle
    /\ RouteIdle
    /\ HookIdle
    /\ SinkIdle
    /\ SplitIdle
    /\ message \in QuoteTexts
    /\ quoted = <<>>

BlockquoteMessage ==
    /\ quoted = <<>>
    /\ quoted' = Blockquote(message)
    /\ UNCHANGED message
    /\ UNCHANGED <<splitVars, procVars, routeVars, hookVars, sinkVars, accountVars, pageVars, shortcutVars>>

QuoteNext == BlockquoteMessage

QuoteSpec == QuoteInit /\ [][QuoteNext]_vars

(***************************************************************************)
(* Agent events.  An event is a record of its message_type ("none": the    *)
(* event has no message_type attribute), its payload and the number of     *)
(* chunks its rendered text splits into.  The payload is                   *)
(*   assistant_message  content:   "text", or "blank" (empty, whitespace   *)
(*                                 only, None or missing);                 *)
(*   reasoning_message  reasoning: "text", "blank", or "None";             *)
(*   system_alert       message:   "text" or "blank";                      *)
(*   tool_call_message  the shape of tool_call.arguments, see ToolCall,    *)
(*                      or "no_tool_call" (the event has no tool_call).    *)
(***************************************************************************)
StreamEvents ==
    {Event("assistant_message", "text", n) : n \in {1, MaxChunks}}
    \cup {Event("assistant_message", "blank", 1),
          Event("reasoning_message", "None", 1),
          Event("system_alert", "text", 1),
          Event("system_alert", "blank", 1),
          Event("ping", "blank", 1),
          Event("none", "blank", 1)}

\* a tool_call_message of tool `tool`; args is the shape of the argument
\* string: "object" (a JSON object with every key the rendering of the tool
\* reads), "missing_key" (a JSON object without them), "not_object" (JSON, but
\* a list, a number or a string), "badjson" (not empty and not JSON), or
\* "blank" (empty or whitespace only)
ToolCall(tool, args) ==
    [message_type |-> "tool_call_message", payload |-> args, size |-> 1, tool |-> tool]

\* the tools whose rendering indexes the parsed arguments by key
\* (lines 748-782)
KeyedTools == {"archival_memory_insert", "archival_memory_search",
               "memory_insert", "memory_replace"}

\* the tool calls of a stream: a keyed tool with every shape of arguments,
\* run_code (which reads its arguments with .get) and a tool rendered by
\* json.dumps with the shapes that make a difference, and an event without
\* tool_call
ToolEvents ==
    {ToolCall("archival_memory_insert", a) :
        a \in {"object", "missing_key", "not_object", "badjson", "blank"}}
    \cup {ToolCall("run_code", a) : a \in {"missing_key", "not_object"}}
    \cup {ToolCall("web_search", "not_object"),
          Event("tool_call_message", "no_tool_call", 1)}

\* the kind of an event, by the shape of its payload alone: "ignorable" (a
\* message_type the loop does not know, none at all, assistant content or an
\* alert message that is empty after trimming), "malformed" (a payload whose
\* rendering raises), or what it renders to; a tool call keeps its tool and
\* the shape of its arguments
Kind(e) ==
    IF e.message_type = "tool_call_message" /\ e.payload # "no_tool_call"
    THEN [kind |-> "tool", size |-> e.size, tool |-> e.tool, args |-> e.payload]
    ELSE
    [kind |-> IF e.message_type = "assistant_message"
              THEN IF e.payload = "text" THEN "text" ELSE "ignorable"
              ELSE IF e.message_type = "system_alert"
              THEN IF e.payload = "text" THEN "alert" ELSE "ignorable"
              ELSE IF e.message_type = "reasoning_message"
              THEN IF e.payload = "None" THEN "malformed" ELSE "reasoning"
              ELSE IF e.message_type = "tool_call_message"
              THEN "malformed"
              ELSE "ignorable",
     size |-> e.size]

\* seconds between two events of the stream
Delays == {30, 61}

\* if current_time - last_activity > 30  (line 709)
TypingIdleSeconds == 30

\* timeout_seconds = 120  # 2 minute timeout  (line 701; read nowhere)
timeout_seconds == 120

Send(what, size) == [act |-> "send", what |-> what, size |-> size]

Ignore == [act |-> "ignore", what |-> "none", size |-> 0]

Raise == [act |-> "raise", what |-> "none", size |-> 0]

\* a renderer that sends what the code ignores: no content.strip() test and
\* a message for every message_type
RenderEverything(e) ==
    IF e.message_type = "system_alert" THEN Send("info", e.size)
    ELSE IF e.message_type = "reasoning_message" THEN Send("thought", e.size)
    ELSE IF e.message_type = "tool_call_message" THEN Send("tool", e.size)
    ELSE Send("says", e.size)

\* lines 744-795: json.loads or the rendering of the tool raises: the
\* arguments are not JSON, a keyed tool indexes an object without the key or
\* something that is not an object, run_code calls .get on something that is
\* not an object (json.dumps of the other tools takes any JSON value)
ToolRenderingRaises(tool, args) ==
    \/ args = "badjson"
    \/ tool \in KeyedTools /\ args \in {"missing_key", "not_object"}
    \/ tool = "run_code" /\ args = "not_object"

\* no try around json.loads and the rendering: their exception reaches the
\* loop body's except
RenderToolWithoutFallback(e) ==
    IF e.payload = "no_tool_call" THEN Raise
    ELSE IF e.payload = "blank" THEN Ignore
    ELSE IF ToolRenderingRaises(e.tool, e.payload) THEN Raise
    ELSE Send("tool", e.size)

\* lines 738-802: a tool call is rendered for its tool ("tool"), or with its
\* tool name and raw argument string when that raises ("tool_raw": except
\* Exception, line 797); blank arguments send nothing (line 743)
RenderTool(e) ==
    IF e.payload = "no_tool_call" THEN Raise
    ELSE IF e.payload = "blank" THEN Ignore
    ELSE IF ToolRenderingRaises(e.tool, e.payload) THEN Send("tool_raw", e.size)
    ELSE Send("tool", e.size)

\* lines 715-802: what the loop body does with one event
Render(e) ==
    IF e.message_type = "assistant_message"
    THEN IF e.payload = "text" THEN Send("says", e.size) ELSE Ignore
    ELSE IF e.message_type = "reasoning_message"
    THEN IF e.payload = "None" THEN Raise ELSE Send("thought", e.size)
    ELSE IF e.message_type = "system_alert"
    THEN IF e.payload = "text" THEN Send("info", e.size) ELSE Ignore
    ELSE IF e.message_type = "tool_call_message" THEN RenderTool(e)
    ELSE Ignore

\* one request received by the Telegram API: a sendMessage of part `part` of
\* the message rendered for event `ev` (0: not for an event), or a
\* sendChatAction ("typing"); ok: the API answered 200
Sent(what, ev, part, ok) == [what |-> what, ev |-> ev, part |-> part, ok |-> ok]

\* for i, chunk in enumerate(chunks), last part first
MessagePartsReversed(size) == [k \in 1..size |-> size + 1 - k]

\* for i, chunk in enumerate(chunks)  (line 3069)
MessageParts(size) == [k \in 1..size |-> k]

\* the next event is pulled while chunks are still to be sent
CanPullWhileSending == pc \in {"next_event", "send_chunk"}

\* for event in response_stream  (line 703): the loop body has finished
CanPull == pc = "next_event"

\* no try around the loop body: the exception leaves the for loop
EventFailureEscapes == "other_error"

\* the exception ends the loop over the stream: no further event is handled
EventFailureEndsLoop == "done"

\* except Exception as e: ...; continue  (lines 804-806)
EventFailureTarget == "next_event"

\* the exception is swallowed and the function returns
StreamFailureSwallowed(f) == "done"

\* a retry wrapper around the stream: every failure opens the stream again
StreamFailureRetried(f) == "create_stream"

\* except ApiError (line 808) / except Exception (line 845)
StreamFailureTarget(f) == IF f \in {"api_5xx", "api_4xx"} THEN "api_error" ELSE "other_error"

\* the idle time is measured from the start of the stream, whatever was
\* delivered or signalled since
TypingDueSinceStart == current_time - start_time > TypingIdleSeconds

\* if current_time - last_activity > 30  (line 709)
TypingDue == current_time - last_activity > TypingIdleSeconds

\* every request carries the first chunk of the message
FirstPartAgain(p) == 1

\* for i, chunk in enumerate(chunks): the chunk the request carries
\* (lines 3069-3078)
PartToSend(p) == Head(p)

(***************************************************************************)
(* process_message_async for a regular message of a chat whose user has    *)
(* credentials and that has an agent configured, from line 674 on.         *)
(***************************************************************************)
Init ==
    /\ OthersIdle
    /\ SinkIdle
    /\ QuoteIdle
    /\ RouteResolved
    /\ HookIdle
    /\ pc = "please_wait"
    /\ now = 0
    /\ start_time = 0
    /\ last_activity = 0
    /\ current_time = 0
    /\ event = NoEvent
    /\ n_events = 0
    /\ kinds = <<>>
    /\ handled = 0
    /\ pending = <<>>
    /\ log = <<>>
    /\ open_attempts = 0
    /\ failure = "none"
    /\ failure_at = "none"
    /\ text = <<>>
    /\ max_bytes = 4096
    /\ remaining = <<>>
    /\ chunks = <<>>
    /\ split_pos = NoPos
    /\ spc = "idle"

\* line 674: send_telegram_message(chat_id, "(please wait)"); a failure is
\* caught by the outer except (line 886)
SendPleaseWait ==
    /\ pc = "please_wait"
    /\ \E ok \in BOOLEAN :
        /\ log' = Append(log, Sent("please_wait", 0, 1, ok))
        /\ IF ok
           THEN pc' = "create_stream" /\ UNCHANGED <<failure, failure_at>>
           ELSE pc' = "background_error" /\ failure' = "send" /\ failure_at' = "please_wait"
    /\ UNCHANGED <<now, start_time, last_activity, current_time, event, n_events, kinds,
              handled,
                   pending, open_attempts>>
    /\ UNCHANGED <<splitVars, routeVars, hookVars, sinkVars, quoteVars, accountVars, pageVars, shortcutVars>>

\* lines 677-701: create_stream is called once; it returns the stream or raises
CreateStream ==
    /\ pc = "create_stream"
    /\ open_attempts' = open_attempts + 1
    /\ \E outcome \in {"ok", "api_5xx", "api_4xx", "other"} :
        IF outcome = "ok"
        THEN /\ start_time' = now
             /\ last_activity' = now
             /\ pc' = "next_event"
             /\ UNCHANGED <<failure, failure_at>>
        ELSE /\ failure' = outcome
             /\ failure_at' = "open"
             /\ pc' = StreamFailureTarget(outcome)
             /\ UNCHANGED <<start_time, last_activity>>
    /\ UNCHANGED <<now, current_time, event, n_events, kinds,
              handled, pending, log>>
    /\ UNCHANGED <<splitVars, routeVars, hookVars, sinkVars, quoteVars, accountVars, pageVars, shortcutVars>>

\* lines 703-704: the stream yields its next event, one of `events`, one of
\* `delays` seconds after the event before it
NextEventFrom(events, delays) ==
    /\ CanPull
    /\ n_events < MaxEvents
    /\ \E e \in events, d \in delays :
        /\ now' = now + d
        /\ current_time' = now + d
        /\ event' = e
    /\ n_events' = n_events + 1
    /\ kinds' = Append(kinds, Kind(event'))
    /\ pc' = "typing_check"
    /\ UNCHANGED <<start_time, last_activity, handled, pending, log,
                   open_attempts, failure, failure_at>>
    /\ UNCHANGED <<splitVars, routeVars, hookVars, sinkVars, quoteVars, accountVars, pageVars, shortcutVars>>

\* the stream of a conversation: text, reasoning, alerts, pings
NextEvent == NextEventFrom(StreamEvents, Delays)

\* line 703: the stream is exhausted; the function returns
StreamEnds ==
    /\ pc = "next_event"
    /\ pc' = "done"
    /\ UNCHANGED <<now, start_time, last_activity, current_time, event, n_events, kinds,
              handled,
                   pending, log, open_attempts, failure, failure_at>>
    /\ UNCHANGED <<splitVars, routeVars, hookVars, sinkVars, quoteVars, accountVars, pageVars, shortcutVars>>

\* line 703: iterating the stream raises, an ApiError or another exception
\* (the handlers do not tell one status code of an ApiError from another)
StreamRaises ==
    /\ pc = "next_event"
    /\ \E f \in {"api_5xx", "other"} :
        /\ failure' = f
        /\ pc' = StreamFailureTarget(f)
    /\ failure_at' = "iterate"
    /\ UNCHANGED <<now, start_time, last_activity, current_time, event, n_events, kinds,
              handled,
                   pending, log, open_attempts>>
    /\ UNCHANGED <<splitVars, routeVars, hookVars, sinkVars, quoteVars, accountVars, pageVars, shortcutVars>>

\* lines 708-711: the typing signal when nothing was delivered for more than
\* 30 s; send_telegram_typing re-raises its failure (line 2971), outside the
\* loop body's try, so the failure reaches except Exception (line 845)
TypingProbe ==
    /\ pc = "typing_check"
    /\ IF TypingDue
       THEN \E ok \in BOOLEAN :
            /\ log' = Append(log, Sent("typing", 0, 1, ok))
            /\ IF ok
               THEN /\ last_activity' = current_time
                    /\ pc' = "classify"
                    /\ UNCHANGED <<failure, failure_at>>
               ELSE /\ failure' = "other"
                    /\ failure_at' = "typing"
                    /\ pc' = "other_error"
                    /\ UNCHANGED last_activity
       ELSE /\ pc' = "classify"
            /\ UNCHANGED <<log, last_activity, failure, failure_at>>
    /\ UNCHANGED <<now, start_time, current_time, event, n_events, kinds,
              handled, pending,
                   open_attempts>>
    /\ UNCHANGED <<splitVars, routeVars, hookVars, sinkVars, quoteVars, accountVars, pageVars, shortcutVars>>

\* lines 714-802: the event is classified and rendered; send_telegram_message
\* splits the rendered text (line 3061)
ClassifyEvent ==
    /\ pc = "classify"
    /\ LET r == Render(event) IN
        IF r.act = "send"
        THEN /\ pending' = MessageParts(r.size)
             /\ pc' = "send_chunk"
             /\ UNCHANGED handled
        ELSE IF r.act = "ignore"
        THEN /\ pc' = "next_event"
             /\ handled' = handled + 1
             /\ UNCHANGED pending
        ELSE /\ pc' = EventFailureTarget
             /\ handled' = handled + 1
             /\ UNCHANGED pending
    /\ UNCHANGED <<now, start_time, last_activity, current_time, event, n_events,
                   kinds, log, open_attempts, failure, failure_at>>
    /\ UNCHANGED <<splitVars, routeVars, hookVars, sinkVars, quoteVars, accountVars, pageVars, shortcutVars>>

\* lines 3069-3090: one chunk is posted; a status other than 200 raises, the
\* rest of the message is not sent, and the loop body's except continues;
\* after the last chunk last_activity = current_time
SendChunk ==
    /\ pc = "send_chunk"
    /\ \E ok \in BOOLEAN :
        /\ log' = Append(log, Sent(Render(event).what, n_events, PartToSend(pending), ok))
        /\ IF ok
           THEN /\ pending' = Tail(pending)
                /\ IF Tail(pending) = <<>>
                   THEN /\ last_activity' = current_time
                        /\ handled' = handled + 1
                        /\ pc' = "next_event"
                   ELSE /\ pc' = "send_chunk"
                        /\ UNCHANGED <<last_activity, handled>>
           ELSE /\ pending' = <<>>
                /\ handled' = handled + 1
                /\ pc' = EventFailureTarget
                /\ UNCHANGED last_activity
    /\ UNCHANGED <<now, start_time, current_time, event, n_events, kinds,
                   open_attempts, failure, failure_at>>
    /\ UNCHANGED <<splitVars, routeVars, hookVars, sinkVars, quoteVars, accountVars, pageVars, shortcutVars>>

\* lines 808-843: except ApiError: the error is sent to the chat and re-raised
ReportApiError ==
    /\ pc = "api_error"
    /\ \E ok \in BOOLEAN : log' = Append(log, Sent("api_error", 0, 1, ok))
    /\ pc' = "background_error"
    /\ UNCHANGED <<now, start_time, last_activity, current_time, event, n_events, kinds,
              handled,
                   pending, open_attempts, failure, failure_at>>
    /\ UNCHANGED <<splitVars, routeVars, hookVars, sinkVars, quoteVars, accountVars, pageVars, shortcutVars>>

\* lines 845-884: except Exception: the error is sent to the chat and re-raised
ReportOtherError ==
    /\ pc = "other_error"
    /\ \E ok \in BOOLEAN : log' = Append(log, Sent("other_error", 0, 1, ok))
    /\ pc' = "background_error"
    /\ UNCHANGED <<now, start_time, last_activity, current_time, event, n_events, kinds,
              handled,
                   pending, open_attempts, failure, failure_at>>
    /\ UNCHANGED <<splitVars, routeVars, hookVars, sinkVars, quoteVars, accountVars, pageVars, shortcutVars>>

\* lines 886-893: the outer except sends "Error in background processing"
\* and re-raises: the exception leaves process_message_async
ReportBackgroundError ==
    /\ pc = "background_error"
    /\ \E ok \in BOOLEAN : log' = Append(log, Sent("background_error", 0, 1, ok))
    /\ pc' = "raised"
    /\ UNCHANGED <<now, start_time, last_activity, current_time, event, n_events, kinds,
              handled,
                   pending, open_attempts, failure, failure_at>>
    /\ UNCHANGED <<splitVars, routeVars, hookVars, sinkVars, quoteVars, accountVars, pageVars, shortcutVars>>

Next ==
    \/ SendPleaseWait
    \/ CreateStream
    \/ NextEvent
    \/ StreamEnds
    \/ StreamRaises
    \/ TypingProbe
    \/ ClassifyEvent
    \/ SendChunk
    \/ ReportApiError
    \/ ReportOtherError
    \/ ReportBackgroundError

Spec == Init /\ [][Next]_vars

(***************************************************************************)
(* The same function consuming a stream of tool calls.                     *)
(***************************************************************************)
\* seconds between two tool calls of the stream: long enough for the typing
\* signal to be due at each of them
ToolDelays == {61}

NextToolEvent == NextEventFrom(ToolEvents, ToolDelays)

ToolNext ==
    \/ SendPleaseWait
    \/ CreateStream
    \/ NextToolEvent
    \/ StreamEnds
    \/ StreamRaises
    \/ TypingProbe
    \/ ClassifyEvent
    \/ SendChunk
    \/ ReportApiError
    \/ ReportOtherError
    \/ ReportBackgroundError

ToolSpec == Init /\ [][ToolNext]_vars

(***************************************************************************)
(* process_message_async from its first line, for an update with a text:   *)
(* the credentials of the user and the agent of the chat are resolved      *)
(* (lines 535-667), then the stream is consumed as above.                  *)
(***************************************************************************)
\* the names the backend may hold for an agent
AgentNames == {"A", "B"}

\* what the stream yields after the resolution
RouteEvents == {Event("assistant_message", "text", 1), Event("ping", "blank", 1)}

\* the environment variable stands for an agent even when it is not set
AgentInfoAlways(file, env) ==
    IF file # NoAgent THEN file ELSE [agent_id |-> "a9", agent_name |-> "Agent"]

\* get_chat_agent_info (lines 1019-1044): agent.json, else LETTA_AGENT_ID
\* under the name "Agent", else None
AgentInfo(file, env) ==
    IF file # NoAgent THEN file
    ELSE IF env # "none" THEN [agent_id |-> env, agent_name |-> "Agent"]
    ELSE NoAgent

\* lines 570-572: the default agent was offered, is not accepted, and the
\* text is one of 'yes', 'y', 'sure', 'ok', 'okay', 'create'
OfferPending(prefs, t) == prefs.offered /\ ~prefs.accepted /\ t = "yes"

\* the agent is saved under the generic name
SavedAgentAsGeneric(id, name) == [agent_id |-> id, agent_name |-> "Agent"]

\* save_chat_agent (lines 1054-1058): the agent_data written to agent.json
SavedAgent(id, name) == [agent_id |-> id, agent_name |-> name]

RouteInit ==
    /\ OthersIdle
    /\ SinkIdle
    /\ QuoteIdle
    /\ message_text \in {"hello", "yes"}
    /\ credentials \in {"none", "stored", "unreadable"}
    /\ agent_file \in {NoAgent, StoredAgent}
    /\ env_agent_id \in {"none", "a9"}
    /\ chat_project \in {"none", "p1"}
    /\ preferences \in [offered : BOOLEAN, accepted : BOOLEAN]
    /\ agent_id = "none"
    /\ agent_name = "none"
    /\ pc = "credentials"
    /\ now = 0
    /\ start_time = 0
    /\ last_activity = 0
    /\ current_time = 0
    /\ event = NoEvent
    /\ n_events = 0
    /\ kinds = <<>>
    /\ handled = 0
    /\ pending = <<>>
    /\ log = <<>>
    /\ open_attempts = 0
    /\ failure = "none"
    /\ failure_at = "none"
    /\ SplitIdle
    /\ HookIdle

\* lines 546-557: get_user_credentials raises (the error is sent and
\* re-raised), returns None (the guidance is sent and the function returns)
\* or returns the credentials; a send that fails raises in either case
GetCredentials ==
    /\ pc = "credentials"
    /\ IF credentials = "stored"
       THEN /\ pc' = "agent_info"
            /\ UNCHANGED <<log, failure, failure_at>>
       ELSE \E ok \in BOOLEAN :
            /\ log' = Append(log, Sent(IF credentials = "none" THEN "auth_required"
                                       ELSE "credentials_error", 0, 1, ok))
            /\ IF credentials = "none" /\ ok
               THEN /\ pc' = "done"
                    /\ UNCHANGED <<failure, failure_at>>
               ELSE /\ pc' = "background_error"
                    /\ failure' = (IF ok THEN "credentials" ELSE "send")
                    /\ failure_at' = "credentials"
    /\ UNCHANGED <<now, start_time, last_activity, current_time, event, n_events,
                   kinds, handled, pending, open_attempts>>
    /\ UNCHANGED <<splitVars, routeVars, hookVars, sinkVars, quoteVars, accountVars, pageVars, shortcutVars>>

\* lines 565-652: the agent of the chat; without one, the reply to the offer
\* of a default agent, or the guidance and return
GetAgentInfo ==
    /\ pc = "agent_info"
    /\ LET info == AgentInfo(agent_file, env_agent_id) IN
        IF info # NoAgent
        THEN /\ agent_id' = info.agent_id
             /\ agent_name' = info.agent_name
             /\ pc' = "retrieve_agent"
             /\ UNCHANGED <<log, failure, failure_at>>
        ELSE IF OfferPending(preferences, message_text)
        THEN /\ pc' = "default_agent"
             /\ UNCHANGED <<agent_id, agent_name, log, failure, failure_at>>
        ELSE \E ok \in BOOLEAN :
             /\ log' = Append(log, Sent("no_agent", 0, 1, ok))
             /\ IF ok
                THEN /\ pc' = "done"
                     /\ UNCHANGED <<failure, failure_at>>
                ELSE /\ pc' = "background_error"
                     /\ failure' = "send"
                     /\ failure_at' = "agent_info"
             /\ UNCHANGED <<agent_id, agent_name>>
    /\ UNCHANGED <<now, start_time, last_activity, current_time, event, n_events,
                   kinds, handled, pending, open_attempts>>
    /\ UNCHANGED <<message_text, credentials, agent_file, env_agent_id, chat_project,
                   preferences>>
    /\ UNCHANGED <<splitVars, hookVars, sinkVars, quoteVars, accountVars, pageVars, shortcutVars>>

\* lines 658-667: the backend's name of the agent; when it differs from the
\* cached one, save_chat_agent writes it (returning False when the write
\* fails) and agent_name takes it; an exception keeps the cached name
RetrieveAgent ==
    /\ pc = "retrieve_agent"
    /\ \E current \in AgentNames \cup {"raises"}, saved \in BOOLEAN :
        IF current \in AgentNames /\ current # agent_name
        THEN /\ agent_file' = IF saved THEN SavedAgent(agent_id, current) ELSE agent_file
             /\ agent_name' = current
        ELSE UNCHANGED <<agent_file, agent_name>>
    /\ pc' = "please_wait"
    /\ UNCHANGED <<now, start_time, last_activity, current_time, event, n_events,
                   kinds, handled, pending, log, open_attempts, failure, failure_at>>
    /\ UNCHANGED <<message_text, credentials, env_agent_id, chat_project, preferences,
                   agent_id>>
    /\ UNCHANGED <<splitVars, hookVars, sinkVars, quoteVars, accountVars, pageVars, shortcutVars>>

\* lines 575-583: "(processing...)" is sent and the project of the chat is
\* read; an exception goes to the except of line 641
DefaultAgentStart ==
    /\ pc = "default_agent"
    /\ \E ok \in BOOLEAN :
        /\ log' = Append(log, Sent("processing", 0, 1, ok))
        /\ pc' = IF ~ok THEN "create_failed"
                 ELSE IF chat_project = "none" THEN "no_project"
                 ELSE "create_agent"
    /\ UNCHANGED <<now, start_time, last_activity, current_time, event, n_events,
                   kinds, handled, pending, open_attempts, failure, failure_at>>
    /\ UNCHANGED <<splitVars, routeVars, hookVars, sinkVars, quoteVars, accountVars, pageVars, shortcutVars>>

\* lines 581-583: no project: the guidance is sent and the function returns
NoProject ==
    /\ pc = "no_project"
    /\ \E ok \in BOOLEAN :
        /\ log' = Append(log, Sent("no_project", 0, 1, ok))
        /\ pc' = IF ok THEN "done" ELSE "create_failed"
    /\ UNCHANGED <<now, start_time, last_activity, current_time, event, n_events,
                   kinds, handled, pending, open_attempts, failure, failure_at>>
    /\ UNCHANGED <<splitVars, routeVars, hookVars, sinkVars, quoteVars, accountVars, pageVars, shortcutVars>>

\* lines 588-604: "(creating agent Ion...)" is sent and create_default_agent
\* returns the agent or raises (it never returns None, lines 326-490); the
\* agent is saved for the chat and default_agent_accepted is saved, each write
\* returning False when it fails
CreateDefaultAgent ==
    /\ pc = "create_agent"
    /\ \E ok \in BOOLEAN, created \in BOOLEAN, saved \in BOOLEAN, kept \in BOOLEAN :
        /\ log' = Append(log, Sent("creating", 0, 1, ok))
        /\ IF ok /\ created
           THEN /\ agent_file' = IF saved THEN SavedAgent("a2", "Ion") ELSE agent_file
                /\ preferences' = IF kept THEN [preferences EXCEPT !.accepted = TRUE]
                                  ELSE preferences
                /\ pc' = "intro_open"
           ELSE /\ pc' = IF ok THEN "create_error" ELSE "create_failed"
                /\ UNCHANGED <<agent_file, preferences>>
    /\ UNCHANGED <<now, start_time, last_activity, current_time, event, n_events,
                   kinds, handled, pending, open_attempts, failure, failure_at>>
    /\ UNCHANGED <<message_text, credentials, env_agent_id, chat_project, agent_id,
                   agent_name>>
    /\ UNCHANGED <<splitVars, hookVars, sinkVars, quoteVars, accountVars, pageVars, shortcutVars>>

\* lines 593-596: create_default_agent raised: the error is sent and the
\* function returns
CreateError ==
    /\ pc = "create_error"
    /\ \E ok \in BOOLEAN :
        /\ log' = Append(log, Sent("create_error", 0, 1, ok))
        /\ pc' = IF ok THEN "done" ELSE "create_failed"
    /\ UNCHANGED <<now, start_time, last_activity, current_time, event, n_events,
                   kinds, handled, pending, open_attempts, failure, failure_at>>
    /\ UNCHANGED <<splitVars, routeVars, hookVars, sinkVars, quoteVars, accountVars, pageVars, shortcutVars>>

\* lines 607-627: "(Ion is ready)" is sent and the introduction stream opened
IntroOpen ==
    /\ pc = "intro_open"
    /\ \E ok \in BOOLEAN, opened \in BOOLEAN :
        /\ log' = Append(log, Sent("ready", 0, 1, ok))
        /\ open_attempts' = IF ok THEN open_attempts + 1 ELSE open_attempts
        /\ pc' = IF ok /\ opened THEN "intro_stream" ELSE "create_failed"
    /\ UNCHANGED <<now, start_time, last_activity, current_time, event, n_events,
                   kinds, handled, pending, failure, failure_at>>
    /\ UNCHANGED <<splitVars, routeVars, hookVars, sinkVars, quoteVars, accountVars, pageVars, shortcutVars>>

\* lines 630-635: an event of the introduction; assistant content is sent
IntroEvent ==
    /\ pc = "intro_stream"
    /\ n_events < MaxEvents
    /\ \E e \in RouteEvents, ok \in BOOLEAN :
        /\ event' = e
        /\ IF Kind(e).kind = "text"
           THEN /\ log' = Append(log, Sent("says", n_events + 1, 1, ok))
                /\ pc' = IF ok THEN "intro_stream" ELSE "create_failed"
           ELSE /\ pc' = "intro_stream"
                /\ UNCHANGED log
    /\ n_events' = n_events + 1
    /\ kinds' = Append(kinds, Kind(event'))
    /\ handled' = handled + 1
    /\ UNCHANGED <<now, start_time, last_activity, current_time, pending,
                   open_attempts, failure, failure_at>>
    /\ UNCHANGED <<splitVars, routeVars, hookVars, sinkVars, quoteVars, accountVars, pageVars, shortcutVars>>

\* lines 630-637: the introduction ends (return) or its iteration raises
IntroEnds ==
    /\ pc = "intro_stream"
    /\ \E raised \in BOOLEAN : pc' = IF raised THEN "create_failed" ELSE "done"
    /\ UNCHANGED <<now, start_time, last_activity, current_time, event, n_events,
                   kinds, handled, pending, log, open_attempts, failure, failure_at>>
    /\ UNCHANGED <<splitVars, routeVars, hookVars, sinkVars, quoteVars, accountVars, pageVars, shortcutVars>>

\* lines 641-644: except Exception: "(error: unable to create agent)" is sent
\* and the function returns; a send that fails reaches the outer except
CreateFailed ==
    /\ pc = "create_failed"
    /\ \E ok \in BOOLEAN :
        /\ log' = Append(log, Sent("create_failed", 0, 1, ok))
        /\ IF ok
           THEN /\ pc' = "done"
                /\ UNCHANGED <<failure, failure_at>>
           ELSE /\ pc' = "background_error"
                /\ failure' = "send"
                /\ failure_at' = "default_agent"
    /\ UNCHANGED <<now, start_time, last_activity, current_time, event, n_events,
                   kinds, handled, pending, open_attempts>>
    /\ UNCHANGED <<splitVars, routeVars, hookVars, sinkVars, quoteVars, accountVars, pageVars, shortcutVars>>

NextRouteEvent == NextEventFrom(RouteEvents, Delays)

RouteNext ==
    \/ GetCredentials
    \/ GetAgentInfo
    \/ RetrieveAgent
    \/ DefaultAgentStart
    \/ NoProject
    \/ CreateDefaultAgent
    \/ CreateError
    \/ IntroOpen
    \/ IntroEvent
    \/ IntroEnds
    \/ CreateFailed
    \/ SendPleaseWait
    \/ CreateStream
    \/ NextRouteEvent
    \/ StreamEnds
    \/ StreamRaises
    \/ TypingProbe
    \/ ClassifyEvent
    \/ SendChunk
    \/ ReportApiError
    \/ ReportOtherError
    \/ ReportBackgroundError

RouteSpec == RouteInit /\ [][RouteNext]_vars

(***************************************************************************)
(* telegram_webhook receiving regular messages (text that is no command)   *)
(* of one chat, with TELEGRAM_WEBHOOK_SECRET configured, and the           *)
(* process_message_async calls it spawns.  A spawned call runs on its own, *)
(* beside the webhook and the other calls; here it is the sequence of its  *)
(* send_telegram_message requests to the chat.                             *)
(***************************************************************************)
HookInit ==
    /\ OthersIdle
    /\ SinkIdle
    /\ QuoteIdle
    /\ ProcIdle
    /\ RouteIdle
    /\ SplitIdle
    /\ inbound = MaxInbound
    /\ responses = <<>>
    /\ units = <<>>
    /\ chat = <<>>
    /\ webhook_secret = "s1"
    /\ calls = <<>>

\* the header x-telegram-bot-api-secret-token: not sent, the configured
\* secret, another value
Headers == {"absent", "s1", "s2"}

\* an update without the secret header passes as well
SecretAcceptedOrAbsent(secret, header) ==
    secret = "none" \/ header = "absent" \/ header = secret

\* lines 908-913: without a configured secret every update passes; with one,
\* the header has to be equal to it
SecretAccepted(secret, header) == secret = "none" \/ header = secret

\* text.startswith(prefix)
StartsWith(t, prefix) ==
    Len(t) >= Len(prefix) /\ SubSeq(t, 1, Len(prefix)) = prefix

\* the if / elif chain of lines 925-981, in its order
Commands == <<
    [prefix |-> <<"/", "a", "g", "e", "n", "t", "s">>,
     handler |-> "handle_agents_command"],     \* line 926
    [prefix |-> <<"/", "a", "g", "e", "n", "t">>,
     handler |-> "handle_agent_command"],     \* line 929
    [prefix |-> <<"/", "h", "e", "l", "p">>,
     handler |-> "handle_help_command"],     \* line 932
    [prefix |-> <<"/", "m", "a", "k", "e", "-", "d", "e", "f", "a", "u", "l", "t", "-", "a", "g", "e", "n", "t">>,
     handler |-> "handle_make_default_agent_command"],     \* line 935
    [prefix |-> <<"/", "a", "d", "e">>,
     handler |-> "handle_ade_command"],     \* line 938
    [prefix |-> <<"/", "l", "o", "g", "i", "n">>,
     handler |-> "handle_login_command"],     \* line 941
    [prefix |-> <<"/", "l", "o", "g", "o", "u", "t">>,
     handler |-> "handle_logout_command"],     \* line 944
    [prefix |-> <<"/", "s", "t", "a", "t", "u", "s">>,
     handler |-> "handle_status_command"],     \* line 947
    [prefix |-> <<"/", "s", "t", "a", "r", "t">>,
     handler |-> "handle_start_command"],     \* line 950
    [prefix |-> <<"/", "t", "o", "o", "l">>,
     handler |-> "handle_tool_command"],     \* line 953
    [prefix |-> <<"/", "t", "e", "l", "e", "g", "r", "a", "m", "-", "n", "o", "t", "i", "f", "y">>,
     handler |-> "handle_telegram_notify_command"],     \* line 956
    [prefix |-> <<"/", "s", "h", "o", "r", "t", "c", "u", "t">>,
     handler |-> "handle_shortcut_command"],     \* line 959
    [prefix |-> <<"/", "s", "w", "i", "t", "c", "h">>,
     handler |-> "handle_switch_command"],     \* line 962
    [prefix |-> <<"/", "p", "r", "o", "j", "e", "c", "t", "s">>,
     handler |-> "handle_projects_command"],     \* line 965
    [prefix |-> <<"/", "p", "r", "o", "j", "e", "c", "t">>,
     handler |-> "handle_project_command"],     \* line 968
    [prefix |-> <<"/", "c", "l", "e", "a", "r", "-", "p", "r", "e", "f", "e", "r", "e", "n", "c", "e", "s">>,
     handler |-> "handle_clear_preferences_command"],     \* line 971
    [prefix |-> <<"/", "b", "l", "o", "c", "k", "s">>,
     handler |-> "handle_blocks_command"],     \* line 974
    [prefix |-> <<"/", "b", "l", "o", "c", "k">>,
     handler |-> "handle_block_command"],     \* line 977
    [prefix |-> <<"/", "r", "e", "f", "r", "e", "s", "h">>,
     handler |-> "handle_refresh_command"]      \* line 980
>>

\* the handler of the first branch of the chain that the text satisfies
Dispatch(t) ==
    LET hits == {k \in 1..Len(Commands) : StartsWith(t, Commands[k].prefix)}
    IN  IF hits = {} THEN "none"
        ELSE Commands[CHOOSE k \in hits : \A j \in hits : k <= j].handler

\* an update without "message" or without "text" in it
NoText == <<"no_text">>

\* a regular message
RegularText == <<"h", "i">>

\* the texts of the updates: each command alone, three commands with an
\* argument, a regular message, an unknown command, the empty text, no text
UpdateTexts ==
    {Commands[k].prefix : k \in 1..Len(Commands)}
        \cup {<<"/", "a", "g", "e", "n", "t", " ", "a">>, <<"/", "p", "r", "o", "j", "e", "c", "t", " ", "p">>, <<"/", "b", "l", "o", "c", "k", " ", "b">>,
              RegularText, <<"/", "x">>, <<>>, NoText}

\* lines 903-998 for an update with one of the given headers and texts: the
\* secret header is compared (401 when it differs); an update without text
\* is answered at once; a command runs its handler, whose exception is
\* re-raised (lines 991-995); for any other text the typing signal is sent,
\* whose failure is re-raised too (line 985), and the update is spawned; the
\* webhook answers without waiting for the spawned call
Webhook(headers, texts) ==
    /\ inbound > 0
    /\ inbound' = inbound - 1
    /\ \E header \in headers, t \in texts, handler_ok \in BOOLEAN, typing_ok \in BOOLEAN :
        LET handler == IF t = NoText THEN "none" ELSE Dispatch(t)
            Call(h, typing, spawned, response) ==
                [header |-> header, text |-> t, handler |-> h, typing |-> typing,
                 spawned |-> spawned, response |-> response]
        IN  IF ~SecretAccepted(webhook_secret, header)
            THEN /\ calls' = Append(calls, Call("none", "none", FALSE, "401"))
                 /\ responses' = Append(responses, "401")
                 /\ UNCHANGED units
            ELSE IF t = NoText
            THEN /\ calls' = Append(calls, Call("none", "none", FALSE, "ok"))
                 /\ responses' = Append(responses, "ok")
                 /\ UNCHANGED units
            ELSE IF handler # "none"
            THEN /\ calls' = Append(calls,
                        Call(handler, "none", FALSE, IF handler_ok THEN "ok" ELSE "500"))
                 /\ responses' = Append(responses, IF handler_ok THEN "ok" ELSE "500")
                 /\ UNCHANGED units
            ELSE IF ~typing_ok
            THEN /\ calls' = Append(calls, Call("none", "failed", FALSE, "500"))
                 /\ responses' = Append(responses, "500")
                 /\ UNCHANGED units
            ELSE /\ calls' = Append(calls, Call("none", "sent", TRUE, "ok"))
                 /\ responses' = Append(responses, "ok")
                 /\ units' = Append(units, [state |-> "running", sent |-> 0])
    /\ UNCHANGED <<chat, webhook_secret>>
    /\ UNCHANGED <<splitVars, procVars, routeVars, sinkVars, quoteVars, accountVars, pageVars, shortcutVars>>

\* the webhook for the regular messages of a bot with a secret configured
TelegramWebhook == Webhook({"s1", "s2"}, {RegularText})

\* lines 3050-3095 called from process_message_async: a running call posts
\* its next message to the chat
UnitSend ==
    /\ \E u \in 1..Len(units) :
        /\ units[u].state = "running"
        /\ units[u].sent < MaxUnitSends
        /\ chat' = Append(chat, [unit |-> u, n |-> units[u].sent + 1])
        /\ units' = [units EXCEPT ![u].sent = @ + 1]
    /\ UNCHANGED <<inbound, responses, webhook_secret, calls>>
    /\ UNCHANGED <<splitVars, procVars, routeVars, sinkVars, quoteVars, accountVars, pageVars, shortcutVars>>

\* a call ends; each of its paths has sent a message before (a guidance
\* message, "(please wait)", an error report)
UnitReturns ==
    /\ \E u \in 1..Len(units) :
        /\ units[u].state = "running"
        /\ units[u].sent >= 1
        /\ units' = [units EXCEPT ![u].state = "returned"]
    /\ UNCHANGED <<inbound, responses, chat, webhook_secret, calls>>
    /\ UNCHANGED <<splitVars, procVars, routeVars, sinkVars, quoteVars, accountVars, pageVars, shortcutVars>>

HookNext == TelegramWebhook \/ UnitSend \/ UnitReturns

HookSpec == HookInit /\ [][HookNext]_vars

(***************************************************************************)
(* telegram_webhook alone, for every kind of update, with and without a    *)
(* configured secret; the calls it spawns have not started yet.            *)
(***************************************************************************)
DispatchInit ==
    /\ OthersIdle
    /\ SinkIdle
    /\ QuoteIdle
    /\ ProcIdle
    /\ RouteIdle
    /\ SplitIdle
    /\ inbound = MaxInbound
    /\ responses = <<>>
    /\ units = <<>>
    /\ chat = <<>>
    /\ webhook_secret \in {"none", "s1"}
    /\ calls = <<>>

TelegramWebhookAny == Webhook(Headers, UpdateTexts)

DispatchNext == TelegramWebhookAny

DispatchSpec == DispatchInit /\ [][DispatchNext]_vars

(***************************************************************************)
(* The account of one user in one chat: /login and /logout, handled by the *)
(* webhook, and the user's regular messages, each handled by a spawned     *)
(* call of process_message_async that runs on its own.  A write to the     *)
(* volume and its commit are one step.                                     *)
(***************************************************************************)
\* os.remove fails silently: credentials.json stays as it was
DeleteLeavesFile(file) == file

\* delete_user_credentials (lines 135-149): credentials.json is removed
DeleteUserCredentials(file) == "none"

\* store_user_credentials (lines 75-107): credentials.json is written
StoreUserCredentials(file) == "stored"

\* a call of process_message_async that has just been spawned; arrived,
\* read and opened are the session at the arrival of the update, at line 548
\* and at create_stream ("not_yet": the call has not come there)
SpawnedTask(at) ==
    [state |-> "spawned", arrived |-> at, read |-> "not_yet", opened |-> "not_yet",
     sent |-> <<>>]

AccountInit ==
    /\ ProcIdle
    /\ SplitIdle
    /\ SinkIdle
    /\ QuoteIdle
    /\ PageIdle
    /\ ShortcutIdle
    /\ message_text = "no_text"
    /\ credentials \in {"none", "stored", "unreadable"}
    /\ agent_file = NoAgent
    /\ env_agent_id = "none"
    /\ chat_project = "none"
    /\ preferences = [offered |-> FALSE, accepted |-> FALSE]
    /\ agent_id = "none"
    /\ agent_name = "none"
    /\ inbound = MaxUpdates
    /\ responses = <<>>
    /\ units = <<>>
    /\ chat = <<>>
    /\ webhook_secret = "none"
    /\ calls = <<>>
    /\ session = "none"
    /\ tasks = <<>>

\* handle_logout_command (lines 1332-1367): unreadable credentials raise,
\* missing ones are reported ("not logged in"), stored ones are deleted
\* unless the removal raises
LogoutCommand ==
    /\ inbound > 0
    /\ inbound' = inbound - 1
    /\ IF credentials = "stored"
       THEN \E deleted \in BOOLEAN :
            IF deleted
            THEN /\ credentials' = DeleteUserCredentials(credentials)
                 /\ session' = "logged_out"
            ELSE UNCHANGED <<credentials, session>>
       ELSE UNCHANGED <<credentials, session>>
    /\ UNCHANGED <<message_text, agent_file, env_agent_id, chat_project, preferences,
                   agent_id, agent_name>>
    /\ UNCHANGED <<responses, units, chat, webhook_secret, calls, tasks>>
    /\ UNCHANGED <<splitVars, procVars, sinkVars, quoteVars, pageVars, shortcutVars>>

\* handle_login_command (lines 1147-1252): without a key, with a key the
\* backend rejects, or when the store fails, nothing is stored; otherwise
\* the credentials are written
LoginCommand ==
    /\ inbound > 0
    /\ inbound' = inbound - 1
    /\ \E outcome \in {"usage", "invalid_key", "store_failed", "stored"} :
        IF outcome = "stored"
        THEN /\ credentials' = StoreUserCredentials(credentials)
             /\ session' = "logged_in"
        ELSE UNCHANGED <<credentials, session>>
    /\ UNCHANGED <<message_text, agent_file, env_agent_id, chat_project, preferences,
                   agent_id, agent_name>>
    /\ UNCHANGED <<responses, units, chat, webhook_secret, calls, tasks>>
    /\ UNCHANGED <<splitVars, procVars, sinkVars, quoteVars, pageVars, shortcutVars>>

\* telegram_webhook for a regular message (lines 983-989): the typing signal,
\* whose failure is re-raised, then the spawn
RegularMessage ==
    /\ inbound > 0
    /\ Len(tasks) < MaxTasks
    /\ inbound' = inbound - 1
    /\ \E typing_ok \in BOOLEAN :
        IF typing_ok
        THEN tasks' = Append(tasks, SpawnedTask(session))
        ELSE UNCHANGED tasks
    /\ UNCHANGED <<routeVars, session>>
    /\ UNCHANGED <<responses, units, chat, webhook_secret, calls>>
    /\ UNCHANGED <<splitVars, procVars, sinkVars, quoteVars, pageVars, shortcutVars>>

\* lines 546-557 of a spawned call: get_user_credentials raises (the error
\* is sent and re-raised), returns None (the guidance is sent and the call
\* returns) or returns the credentials; a send that fails raises, and what
\* is raised is reported by the outer handler (lines 886-893)
TaskReadsCredentials ==
    /\ \E t \in 1..Len(tasks), ok \in BOOLEAN :
        /\ tasks[t].state = "spawned"
        /\ tasks' = [tasks EXCEPT ![t] =
            IF credentials = "stored"
            THEN [@ EXCEPT !.state = "resolved", !.read = session]
            ELSE IF credentials = "none" /\ ok
            THEN [@ EXCEPT !.state = "returned", !.read = session,
                           !.sent = <<"auth_required">>]
            ELSE [@ EXCEPT !.state = "raised", !.read = session,
                           !.sent = <<IF credentials = "none" THEN "auth_required"
                                      ELSE "credentials_error",
                                      "background_error">>]]
    /\ UNCHANGED <<routeVars, hookVars, session>>
    /\ UNCHANGED <<splitVars, procVars, sinkVars, quoteVars, pageVars, shortcutVars>>

\* lines 565-693 of a spawned call: the agent of the chat is resolved; the
\* call returns with a guidance when there is none, or sends "(please wait)"
\* and calls create_stream
TaskOpensStream ==
    /\ \E t \in 1..Len(tasks), has_agent \in BOOLEAN :
        /\ tasks[t].state = "resolved"
        /\ tasks' = [tasks EXCEPT ![t] =
            IF has_agent
            THEN [@ EXCEPT !.state = "streaming", !.opened = session,
                           !.sent = <<"please_wait">>]
            ELSE [@ EXCEPT !.state = "returned", !.sent = <<"no_agent">>]]
    /\ UNCHANGED <<routeVars, hookVars, session>>
    /\ UNCHANGED <<splitVars, procVars, sinkVars, quoteVars, pageVars, shortcutVars>>

\* lines 703-806 of a spawned call: the stream is over
TaskReturns ==
    /\ \E t \in 1..Len(tasks) :
        /\ tasks[t].state = "streaming"
        /\ tasks' = [tasks EXCEPT ![t].state = "returned"]
    /\ UNCHANGED <<routeVars, hookVars, session>>
    /\ UNCHANGED <<splitVars, procVars, sinkVars, quoteVars, pageVars, shortcutVars>>

AccountNext ==
    \/ LogoutCommand
    \/ LoginCommand
    \/ RegularMessage
    \/ TaskReadsCredentials
    \/ TaskOpensStream
    \/ TaskReturns

AccountSpec == AccountInit /\ [][AccountNext]_vars

(***************************************************************************)
(* get_all_projects (lines 1115-1139).  The backend holds the projects     *)
(* 1..n_projects; client.projects.list(offset, limit) raises or returns a  *)
(* page of at most limit of the projects after offset, possibly fewer and  *)
(* possibly none, and has_next_page tells whether projects remain after    *)
(* the page.                                                               *)
(***************************************************************************)
Min(a, b) == IF a < b THEN a ELSE b

\* response.projects for a page of k projects after offset
Page(off, k) == [i \in 1..k |-> off + i]

\* response.has_next_page for that page
HasNextPage(off, k, total) == off + k < total

PageInit ==
    /\ ProcIdle
    /\ RouteIdle
    /\ HookIdle
    /\ SplitIdle
    /\ SinkIdle
    /\ QuoteIdle
    /\ AccountIdle
    /\ ShortcutIdle
    /\ n_projects \in 0..MaxProjects
    /\ offset = 0
    /\ all_projects = <<>>
    /\ requests = <<>>
    /\ page_pc = "loop"

\* lines 1123-1137: one iteration of `while True`: the page at offset is
\* requested; an exception is re-raised; the page is appended; the loop ends
\* when has_next_page is false, else offset grows by the length of the page
ListPage ==
    /\ page_pc = "loop"
    /\ Len(requests) < MaxRequests
    /\ requests' = Append(requests, offset)
    /\ \E raises \in BOOLEAN, k \in 0..Min(PageLimit, n_projects - offset) :
        IF raises
        THEN /\ page_pc' = "raised"
             /\ UNCHANGED <<offset, all_projects>>
        ELSE /\ all_projects' = all_projects \o Page(offset, k)
             /\ IF ~HasNextPage(offset, k, n_projects)
                THEN /\ page_pc' = "returned"
                     /\ UNCHANGED offset
                ELSE /\ page_pc' = "loop"
                     /\ offset' = offset + k
    /\ UNCHANGED n_projects
    /\ UNCHANGED <<splitVars, procVars, routeVars, hookVars, sinkVars, quoteVars,
                   accountVars, shortcutVars>>

PageNext == ListPage

PageSpec == PageInit /\ [][PageNext]_vars

(***************************************************************************)
(* The shortcuts of one user: save_user_shortcut, get_shortcut_by_name and *)
(* delete_user_shortcut on /data/users/<user_id>/shortcuts.json (lines     *)
(* 151-246).  A name is a sequence of characters, "H" and "M" being the    *)
(* upper case of "h" and "m".  A call that changes the file reads it in    *)
(* one step and writes it in a later one.                                  *)
(***************************************************************************)
ShortcutNames == {<<"h">>, <<"H">>, <<"m">>, <<"M">>}

ShortcutAgents == {"a1", "a2"}

LowerChar(ch) == CASE ch = "H" -> "h" [] ch = "M" -> "m" [] OTHER -> ch

\* str.lower()
Lower(name) == [i \in 1..Len(name) |-> LowerChar(name[i])]

\* the shortcut is kept under the name as it was typed
ShortcutKeyAsTyped(name) == name

\* shortcut_name.lower() (lines 166, 212, 230): the key of the dict
ShortcutKey(name) == Lower(name)

\* dict.get(key) of a key the dict does not have
NoShortcut == [agent_id |-> "none", agent_name |-> "none"]

\* lines 166-171: the value saved for a shortcut
ShortcutData(agent) == [agent_id |-> agent, agent_name |-> "A"]

\* shortcuts = {}: no name is a key of the dict
EmptyShortcuts == [k \in ShortcutNames |-> NoShortcut]

\* the dict json.load returns, {} when the file does not exist
LoadShortcuts(file) == IF file.exists THEN file.entries ELSE EmptyShortcuts

\* json.dump(shortcuts, f)
ShortcutsFile(dict) == [exists |-> TRUE, entries |-> dict]

\* get_shortcut_by_name (lines 204-215): get_user_shortcuts(...).get(key)
GetShortcutByName(file, name) == LoadShortcuts(file)[ShortcutKey(name)]

\* the calls that have read the file and not yet written it
Running == {w \in 1..Len(workers) : workers[w].pc = "loaded"}

\* a call of one of the three functions
Call(op, name, agent, at, loaded, result) ==
    [op |-> op, name |-> name, agent |-> agent, pc |-> at, loaded |-> loaded,
     result |-> result]

ShortcutInit ==
    /\ ProcIdle
    /\ RouteIdle
    /\ HookIdle
    /\ SplitIdle
    /\ SinkIdle
    /\ QuoteIdle
    /\ AccountIdle
    /\ PageIdle
    /\ shortcuts = NoFile
    /\ workers = <<>>

\* a function is called while fewer than `limit` calls are between their
\* read and their write.  get_shortcut_by_name returns at once;
\* save_user_shortcut loads the dict (lines 161-163); delete_user_shortcut
\* returns False without a file or without the key, else holds the dict it
\* loaded (lines 224-232)
BeginCall(limit) ==
    /\ Len(workers) < MaxCalls
    /\ Cardinality(Running) < limit
    /\ \E op \in {"get", "save", "delete"}, name \in ShortcutNames, agent \in ShortcutAgents :
        LET dict == LoadShortcuts(shortcuts) IN
        workers' = Append(workers,
            IF op = "get"
            THEN Call(op, name, "none", "returned", dict, GetShortcutByName(shortcuts, name))
            ELSE IF op = "save"
            THEN Call(op, name, agent, "loaded", dict, "none")
            ELSE IF ~shortcuts.exists \/ dict[ShortcutKey(name)] = NoShortcut
            THEN Call(op, name, "none", "returned", dict, FALSE)
            ELSE Call(op, name, "none", "loaded", dict, "none"))
    /\ UNCHANGED shortcuts
    /\ UNCHANGED <<splitVars, procVars, routeVars, hookVars, sinkVars, quoteVars,
                   accountVars, pageVars>>

\* lines 165-181 and 234-242: the dict the call loaded is changed and
\* written, and the call returns True; a write that raises leaves the file
FinishCall ==
    /\ \E w \in Running, written \in BOOLEAN :
        LET key == ShortcutKey(workers[w].name)
            dict == IF workers[w].op = "save"
                    THEN [workers[w].loaded EXCEPT ![key] = ShortcutData(workers[w].agent)]
                    ELSE [workers[w].loaded EXCEPT ![key] = NoShortcut]
        IN  IF written
            THEN /\ shortcuts' = ShortcutsFile(dict)
                 /\ workers' = [workers EXCEPT ![w].pc = "returned", ![w].result = TRUE]
            ELSE /\ workers' = [workers EXCEPT ![w].pc = "raised"]
                 /\ UNCHANGED shortcuts
    /\ UNCHANGED <<splitVars, procVars, routeVars, hookVars, sinkVars, quoteVars,
                   accountVars, pageVars>>

\* one call at a time
BeginCallAlone == BeginCall(1)

ShortcutNext == BeginCallAlone \/ FinishCall

ShortcutSpec == ShortcutInit /\ [][ShortcutNext]_vars

\* two webhook invocations at a time
BeginCallConcurrently == BeginCall(2)

RaceNext == BeginCallConcurrently \/ FinishCall

RaceSpec == ShortcutInit /\ [][RaceNext]_vars

(***************************************************************************)
(* Claims about split_message_at_boundary, checked under SplitSpec.        *)
(***************************************************************************)
RECURSIVE Concat(_)
\* the chunks of a list, concatenated in order
Concat(cs) == IF cs = <<>> THEN <<>> ELSE Head(cs) \o Concat(Tail(cs))

\* the non-whitespace characters of a text, in order
NonWhitespace(s) == SelectSeq(s, LAMBDA c : c \notin Whitespace)

\* C3: every chunk emitted so far, and so every chunk returned, has a UTF-8
\* encoded length of at most max_bytes (for every text and max_bytes >= 4).
C3_ChunksWithinBudget ==
    \A k \in 1..Len(chunks) : Utf8Len(chunks[k]) <= max_bytes

\* a text with multi-byte code points was split into several chunks
C3_Witness ==
    /\ spc = "returned"
    /\ Len(chunks) >= 2
    /\ Utf8Len(text) > Len(text)
    /\ \E k \in 1..Len(chunks) : Utf8Len(chunks[k]) = max_bytes

\* C4: every iteration of the loop chooses a split position of at least 1 and
\* leaves a strictly shorter remaining text, so the loop terminates (the
\* safety-fallback break is never taken).
C4_ForwardProgress ==
    [][(spc = "loop" /\ LoopCondition(remaining, max_bytes))
        => (split_pos' >= 1 /\ Len(remaining') < Len(remaining) /\ spc' = "loop")]_vars

\* the loop ran three iterations or more and returned
C4_Witness ==
    /\ spc = "returned"
    /\ Len(chunks) >= 3
    /\ split_pos >= 1

\* s consists of whitespace only
AllWhitespace(s) == \A i \in 1..Len(s) : s[i] \in Whitespace

RECURSIVE Reconstitutes(_, _)
\* t is the chunks cs in order, with whitespace only before, between and
\* after them
Reconstitutes(t, cs) ==
    IF cs = <<>> THEN AllWhitespace(t)
    ELSE \E i \in 0..(Len(t) - Len(Head(cs))) :
            /\ AllWhitespace(Prefix(t, i))
            /\ SubSeq(t, i + 1, i + Len(Head(cs))) = Head(cs)
            /\ Reconstitutes(Suffix(t, i + Len(Head(cs))), Tail(cs))

\* C5: the returned chunks, concatenated in order, are the input with
\* whitespace removed at the split points only: the input is the chunks in
\* order with nothing but whitespace around them, so they hold exactly the
\* non-whitespace characters of the input, in the input's order; while the
\* loop runs the same holds of the chunks followed by the remaining text.
C5_ContentPreserved ==
    /\ spc = "returned"
        => /\ NonWhitespace(Concat(chunks)) = NonWhitespace(text)
           /\ Reconstitutes(text, chunks)
    /\ spc = "loop"
        => /\ NonWhitespace(Concat(chunks) \o remaining) = NonWhitespace(text)
           /\ Reconstitutes(text, Append(chunks, remaining))

\* a split removed whitespace at a split point and kept several
\* different non-whitespace characters in order
C5_Witness ==
    /\ spc = "returned"
    /\ Len(chunks) >= 2
    /\ Len(Concat(chunks)) < Len(text)
    /\ Cardinality({text[i] : i \in 1..Len(text)} \ Whitespace) >= 2

\* C23 (as claimed): every returned chunk is non-empty and has no leading or
\* trailing whitespace, whatever the text.
C23_ChunksTrimmedNonEmpty ==
    spc = "returned"
        => \A k \in 1..Len(chunks) :
            chunks[k] # <<>> /\ Strip(chunks[k]) = chunks[k]

\* the positions i >= 1 at which s[:i] fits the budget and is followed by a
\* second newline of a paragraph break, by a newline, by a space
ParagraphBreaks(s, budget) ==
    {i \in 1..(Len(s) - 1) : s[i] = "nl" /\ s[i + 1] = "nl" /\ Utf8Len(Prefix(s, i)) <= budget}

LineBreaks(s, budget) ==
    {i \in 1..(Len(s) - 1) : s[i + 1] = "nl" /\ Utf8Len(Prefix(s, i)) <= budget}

WordBreaks(s, budget) ==
    {i \in 1..(Len(s) - 1) : s[i + 1] = "sp" /\ Utf8Len(Prefix(s, i)) <= budget}

\* p is the greatest element of S
Rightmost(p, S) == p \in S /\ \A j \in S : j <= p

\* C24: an iteration on an over-budget remainder splits at the rightmost
\* fitting paragraph break (between its two newlines) if there is one,
\* whatever newlines or spaces lie to its right; if there is none, at the
\* rightmost fitting newline; if there is none, at the rightmost fitting
\* space; and at none of these only if there is none of them.  (A boundary
\* is a position of at least 1: a newline or space that starts the remainder
\* is no candidate.)
C24_BoundaryPreference ==
    [][(spc = "loop" /\ LoopCondition(remaining, max_bytes))
        => LET pb == ParagraphBreaks(remaining, max_bytes)
               lb == LineBreaks(remaining, max_bytes)
               wb == WordBreaks(remaining, max_bytes)
           IN  IF pb # {} THEN Rightmost(split_pos', pb)
               ELSE IF lb # {} THEN Rightmost(split_pos', lb)
               ELSE IF wb # {} THEN Rightmost(split_pos', wb)
               ELSE split_pos' \notin pb \cup lb \cup wb]_vars

\* the first iteration split at a paragraph break although a fitting space
\* lies to its right
C24_Witness ==
    /\ spc = "loop"
    /\ Len(chunks) = 1
    /\ split_pos \in ParagraphBreaks(text, max_bytes)
    /\ remaining = Strip(Suffix(text, split_pos))
    /\ \E j \in WordBreaks(text, max_bytes) : j > split_pos

\* C26: an iteration on an over-budget remainder without a fitting newline
\* or space cuts after a whole number of code points, at least one: the
\* prefix cut off fits the budget and one code point more would not, and the
\* chunk and the new remainder are that prefix and the rest, trimmed.
C26_HardCut ==
    [][(/\ spc = "loop"
        /\ LoopCondition(remaining, max_bytes)
        /\ LineBreaks(remaining, max_bytes) = {}
        /\ WordBreaks(remaining, max_bytes) = {})
        => /\ split_pos' \in 1..Len(remaining)
           /\ Utf8Len(Prefix(remaining, split_pos')) <= max_bytes
           /\ split_pos' < Len(remaining)
                => Utf8Len(Prefix(remaining, split_pos' + 1)) > max_bytes
           /\ Strip(Prefix(remaining, split_pos')) # <<>>
                => chunks' = Append(chunks, Strip(Prefix(remaining, split_pos')))
           /\ remaining' = Strip(Suffix(remaining, split_pos'))]_vars

\* a text of four-byte code points without whitespace was cut after one of
\* them, short of the budget, because the next would not fit
C26_Witness ==
    /\ spc = "returned"
    /\ Len(chunks) >= 2
    /\ \A i \in 1..Len(text) : text[i] = "e4"
    /\ Utf8Len(chunks[1]) < max_bytes

(***************************************************************************)
(* Claims about the example of a two-paragraph text, checked under         *)
(* ParagraphSpec.                                                          *)
(***************************************************************************)
\* the position of the first newline of the paragraph break
BreakAt == CHOOSE i \in 1..(Len(text) - 1) : text[i] = "nl" /\ text[i + 1] = "nl"

\* the paragraph before the break and the remainder after it
FirstParagraph == Prefix(text, BreakAt - 1)

Remainder == Suffix(text, BreakAt + 1)

\* the text is over the budget, the prefix up to the break fits it, and
\* neither paragraph is blank (as 9000 > 4096 and 3500 <= 4096)
LikeTheExample ==
    /\ Utf8Len(text) > max_bytes
    /\ Utf8Len(Prefix(text, BreakAt)) <= max_bytes
    /\ Strip(FirstParagraph) # <<>>
    /\ Strip(Remainder) # <<>>

C21_PayloadWithinLimit ==
    \A k \in 1..Len(posts) : Utf8Len(posts[k].text) <= max_bytes

\* C22: when the platform rejects the formatted text of a chunk, the sink
\* posts the chunk again as raw text (no parse mode, no escaping), and it
\* does not end by raising while a formatted chunk stands rejected.
C22_DegradesToRawText ==
    sink \in {"returned", "raised"}
        => \A k \in 1..Len(posts) :
            (posts[k].parse_mode = "MarkdownV2" /\ posts[k].status_code # 200)
                => /\ k < Len(posts)
                   /\ posts[k + 1].part = posts[k].part
                   /\ posts[k + 1].parse_mode = "none"
                   /\ posts[k + 1].text = chunks[posts[k].part]

(***************************************************************************)
(* Claims about blockquote_message, checked under QuoteSpec.               *)
(***************************************************************************)
\* C27: the output of blockquote_message has as many lines as the input,
\* every output line, also the one of an empty input line, starts with the
\* quote marker, and removing the marker from each line gives the input.
C27_EveryLineQuoted ==
    quoted # <<>>
        => LET ins == SplitLines(message)
               outs == SplitLines(quoted)
           IN  /\ Len(outs) = Len(ins)
               /\ \A k \in 1..Len(outs) :
                    /\ Len(outs[k]) >= Len(QuoteMarker)
                    /\ Prefix(outs[k], Len(QuoteMarker)) = QuoteMarker
                    /\ Suffix(outs[k], Len(QuoteMarker)) = ins[k]
               /\ JoinLines([k \in 1..Len(outs) |-> Suffix(outs[k], Len(QuoteMarker))])
                    = message

\* a message of three lines, the middle one empty and the last one quoted
\* already, was quoted
C27_Witness ==
    /\ quoted # <<>>
    /\ message = <<"a", "nl", "nl", "gt", "sp", "a">>

(***************************************************************************)
(* Claims about process_message_async, checked under Spec.                 *)
(***************************************************************************)
\* the sendMessage requests made for stream events, in the order received
EventSends == SelectSeq(log, LAMBDA m : m.ev > 0)

ErrorReports == {"api_error", "other_error", "background_error"}

HandlerPcs == {"api_error", "other_error", "background_error", "raised"}

\* C1: the chat messages sent for stream events are received in the order of
\* the events, and the chunks of one event in the order the splitter returned
\* them: part 1 first, each further part right after the one before it.
C1_SendsFollowEventOrder ==
    /\ \A i, j \in 1..Len(EventSends) :
        i < j => \/ EventSends[i].ev < EventSends[j].ev
                 \/ /\ EventSends[i].ev = EventSends[j].ev
                    /\ EventSends[i].part < EventSends[j].part
    /\ \A k \in 1..Len(log) :
        (log[k].ev > 0 /\ log[k].part > 1)
            => /\ k > 1
               /\ log[k - 1] = Sent(log[k].what, log[k].ev, log[k].part - 1, TRUE)

\* two events were delivered, one of them in several chunks
C1_Witness ==
    /\ \E i, j \in 1..Len(EventSends) : EventSends[i].ev < EventSends[j].ev
    /\ \E i \in 1..Len(EventSends) : EventSends[i].part >= 2

\* C2: an event is pulled from the stream only when the loop body has
\* finished with every event pulled before it: all its chunks are sent, or
\* its handling has failed or sent nothing.
C2_PullAfterDelivery ==
    [][n_events' # n_events
        => (handled = n_events /\ pending = <<>> /\ n_events' = n_events + 1)]_vars

\* a second event was pulled after a first one was delivered in two chunks
C2_Witness ==
    /\ n_events >= 2
    /\ \E k \in 1..Len(log) : log[k].ev = 1 /\ log[k].part = 2 /\ log[k].ok

\* C6: an ignorable event causes no send; and when the stream has yielded
\* [assistant text, ignorable, alert], each of one chunk, the sends for
\* stream events are exactly two: the text, then the alert.
C6_IgnoredEventsSendNothing ==
    /\ \A k \in 1..Len(log) :
        log[k].ev > 0 => kinds[log[k].ev].kind # "ignorable"
    /\ (/\ handled = 3
        /\ kinds = <<[kind |-> "text", size |-> 1],
                     [kind |-> "ignorable", size |-> 1],
                     [kind |-> "alert", size |-> 1]>>)
        => /\ Len(EventSends) = 2
           /\ [what |-> EventSends[1].what, ev |-> EventSends[1].ev]
                = [what |-> "says", ev |-> 1]
           /\ [what |-> EventSends[2].what, ev |-> EventSends[2].ev]
                = [what |-> "info", ev |-> 3]

\* the stream [text, ignorable, alert] was consumed and ended
C6_Witness ==
    /\ pc = "done"
    /\ kinds = <<[kind |-> "text", size |-> 1],
                 [kind |-> "ignorable", size |-> 1],
                 [kind |-> "alert", size |-> 1]>>
    /\ \A k \in 1..Len(log) : log[k].ok

\* event i failed: its rendering raised, or one of its chunk sends did
EventFailed(i) ==
    \/ kinds[i].kind = "malformed"
    \/ \E k \in 1..Len(log) : log[k].ev = i /\ ~log[k].ok

\* C7: an exception raised while an event is classified, rendered or
\* delivered never reaches the handlers of the stream's try block, and every
\* event the loop body has finished with was delivered whatever happened to
\* the events before it: its first chunk was sent, and every further chunk
\* unless a send of its own failed.
C7_EventFailureIsolated ==
    /\ pc \in HandlerPcs => failure # "none"
    /\ \A i \in 1..handled :
        kinds[i].kind \in {"text", "alert", "reasoning", "tool"}
            => /\ \E k \in 1..Len(log) : log[k].ev = i /\ log[k].part = 1
               /\ \/ EventFailed(i)
                  \/ \A n \in 1..kinds[i].size :
                        \E k \in 1..Len(log) : log[k].ev = i /\ log[k].part = n

\* a later event was delivered in full after an earlier one failed, once by
\* a rendering that raised and once by a send that failed
C7_Witness ==
    /\ pc = "done"
    /\ handled = 3
    /\ kinds[1].kind = "malformed"
    /\ \E k \in 1..Len(log) : log[k].ev = 2 /\ ~log[k].ok
    /\ \E k \in 1..Len(log) : log[k].ev = 3 /\ log[k].part = kinds[3].size /\ log[k].ok

\* C8: once create_stream or the iteration of the stream has raised, the
\* function is in its handlers and stays there: no further event is pulled or
\* handled, every further step sends an error report to the chat, and the
\* function ends by raising, never by returning.
C8_StreamFailurePropagates ==
    [][/\ failure_at' \in {"open", "iterate"} => pc' \in HandlerPcs
       /\ failure_at \in {"open", "iterate"}
            => /\ n_events' = n_events
               /\ handled' = handled
               /\ pc' \in {"background_error", "raised"}
               /\ Len(log') = Len(log) + 1
               /\ log'[Len(log')].what \in ErrorReports]_vars

\* the iteration raised after an event was delivered; the error was
\* reported and the exception left the function
C8_Witness ==
    /\ pc = "raised"
    /\ failure_at = "iterate"
    /\ n_events >= 1
    /\ Len(EventSends) >= 1
    /\ \E k \in 1..Len(log) : log[k].what \in {"api_error", "other_error"} /\ log[k].ok

\* C9 (as claimed): when the stream has yielded only ignorable events and the
\* last of them arrived more than timeout_seconds after start_time, the loop
\* does not handle that event: one terminal alert is sent and the consumer
\* has stopped.
C9_TimeoutTermination ==
    (/\ n_events >= 1
     /\ \A i \in 1..Len(kinds) : kinds[i].kind = "ignorable"
     /\ current_time - start_time > timeout_seconds
     /\ pc \in {"classify", "send_chunk", "next_event", "done"})
        => /\ pc = "done"
           /\ Cardinality({k \in 1..Len(log) : log[k].what = "timeout_alert"}) = 1

\* C10 (as claimed): when create_stream failed with a 5xx ApiError and the
\* failure has left the function, create_stream was called max_retries + 1
\* times, max_retries being 3.
C10_RetryBound ==
    (pc = "raised" /\ failure = "api_5xx" /\ failure_at = "open")
        => open_attempts = 3 + 1

\* C11 (as claimed): when create_stream failed with a 5xx ApiError, an error
\* is reported to the chat only once create_stream was called max_retries + 1
\* times (max_retries being 3), and when the failure has left the function
\* exactly one error report was sent.
C11_EscalationAfterRetries ==
    (failure = "api_5xx" /\ failure_at = "open")
        => /\ (\E k \in 1..Len(log) : log[k].what \in ErrorReports)
                => open_attempts = 3 + 1
           /\ pc = "raised"
                => Cardinality({k \in 1..Len(log) : log[k].what \in ErrorReports}) = 1

\* C12: create_stream is called at most once for a message; when it failed
\* with a 4xx ApiError (a client or authentication error) no event was pulled,
\* the function is in its handlers, the error report is the first request
\* after "(please wait)", and the function ends by raising.
C12_NonTransientNotRetried ==
    /\ open_attempts <= 1
    /\ (failure = "api_4xx" /\ failure_at = "open")
        => /\ open_attempts = 1
           /\ n_events = 0
           /\ pc \in HandlerPcs
           /\ pc \in {"background_error", "raised"}
                => /\ Len(log) >= 2
                   /\ log[1] = Sent("please_wait", 0, 1, TRUE)
                   /\ log[2].what = "api_error"

\* create_stream failed with a 4xx error, which was reported and raised
C12_Witness ==
    /\ pc = "raised"
    /\ failure = "api_4xx"
    /\ failure_at = "open"
    /\ log[2] = Sent("api_error", 0, 1, TRUE)

\* C13 (as claimed): a failure of the typing signal is not propagated: no
\* exception raised by send_telegram_typing leaves the loop over the stream.
C13_TypingBestEffort == failure_at # "typing"

\* C14: when an event arrives more than 30 s after last_activity, a typing
\* signal and no chat message is sent before the event is handled; a typing
\* signal is sent only then; last_activity is the arrival time of the event
\* at which the last message was delivered in full or the last typing signal
\* succeeded (the opening of the stream before either), and changes at
\* nothing else; a typing signal leaves start_time as it is.
C14_TypingSignal ==
    [][LET typed == /\ Len(log') = Len(log) + 1
                    /\ log'[Len(log')].what = "typing"
           delivered == /\ Len(log') = Len(log) + 1
                        /\ log'[Len(log')].ev > 0
                        /\ log'[Len(log')].ok
                        /\ handled' = handled + 1
           opened == pc = "create_stream" /\ pc' = "next_event"
       IN  /\ (pc = "typing_check" /\ current_time - last_activity > TypingIdleSeconds)
                => typed
           /\ typed => /\ pc = "typing_check"
                       /\ current_time - last_activity > TypingIdleSeconds
                       /\ start_time' = start_time
                       /\ log'[Len(log')].ok => last_activity' = current_time
           /\ pc = "typing_check" => (typed \/ log' = log)
           /\ delivered => last_activity' = current_time
           /\ last_activity' # last_activity
                => \/ (typed \/ delivered) /\ last_activity' = current_time
                   \/ opened /\ last_activity' = now]_vars

\* a typing signal was sent, then a message was delivered, then a second
\* typing signal was sent, and the stream ended
C14_Witness ==
    /\ pc = "done"
    /\ \E i, j, k \in 1..Len(log) :
        /\ i < j /\ j < k
        /\ log[i] = Sent("typing", 0, 1, TRUE)
        /\ log[j].ev > 0 /\ log[j].ok
        /\ log[k] = Sent("typing", 0, 1, TRUE)

\* C15: no chunk of the message rendered for an event is posted twice: two
\* different requests of the log never carry the same part of the same
\* event's message, also after a send has failed or the stream has raised.
C15_AtMostOnce ==
    \A i, j \in 1..Len(log) :
        (i # j /\ log[i].ev > 0 /\ log[i].ev = log[j].ev)
            => log[i].part # log[j].part

\* the second chunk of a message failed, a later event was delivered, and
\* then the iteration of the stream raised
C15_Witness ==
    /\ pc = "raised"
    /\ failure_at = "iterate"
    /\ \E k \in 1..Len(log) : log[k].ev = 1 /\ log[k].part = 2 /\ ~log[k].ok
    /\ \E k \in 1..Len(log) : log[k].ev = 2 /\ log[k].ok

(***************************************************************************)
(* Claims about failures in process_message_async, checked under Spec.     *)
(***************************************************************************)
\* the error messages sent to the chat by the handlers of lines 808-893
ErrorMessages ==
    {k \in 1..Len(log) : log[k].what \in {"api_error", "other_error", "background_error"}}

\* C32: when a failure of create_stream or of the iteration of the stream
\* has left the function, exactly one error message was sent for it.
C32_ReportedOnce ==
    (pc = "raised" /\ failure_at \in {"open", "iterate"})
        => Cardinality(ErrorMessages) = 1

\* no request for an event follows a failed request for the same event
NoSendAfterFailure ==
    \A j, k \in 1..Len(log) :
        (j < k /\ log[j].ev > 0 /\ ~log[j].ok) => log[k].ev # log[j].ev

\* C33: when the request for chunk k of an event's message fails, chunks
\* 1..k-1 were delivered before it, in order, and chunk k was requested
\* once; the failure does not reach the handlers of the stream: the event is
\* over, the loop is about to pull the next event, and no request for chunk
\* k or a later chunk of that message is ever made.
C33_ChunkFailureAbsorbed ==
    [][/\ NoSendAfterFailure'
       /\ (/\ Len(log') = Len(log) + 1
           /\ log'[Len(log')].ev > 0
           /\ ~log'[Len(log')].ok)
            => LET m == log'[Len(log')] IN
               /\ m.ev = n_events
               /\ \A n \in 1..(m.part - 1) :
                    \E j \in 1..Len(log) :
                        /\ log[j] = Sent(m.what, m.ev, n, TRUE)
                        /\ \A i \in 1..Len(log) :
                            (log[i].ev = m.ev /\ log[i].part < n) => i < j
               /\ \A j \in 1..Len(log) : log[j].ev = m.ev => log[j].part < m.part
               /\ pending' = <<>>
               /\ handled' = n_events
               /\ pc' = "next_event"
               /\ failure' = "none" /\ failure_at' = "none"]_vars

\* the second chunk of the first event failed after its first chunk was
\* delivered; the second event was then delivered in full and the stream ended
C33_Witness ==
    /\ pc = "done"
    /\ failure = "none"
    /\ Len(EventSends) = 4
    /\ EventSends[1].ev = 1 /\ EventSends[1].part = 1 /\ EventSends[1].ok
    /\ EventSends[2].ev = 1 /\ EventSends[2].part = 2 /\ ~EventSends[2].ok
    /\ EventSends[3].ev = 2 /\ EventSends[3].part = 1 /\ EventSends[3].ok
    /\ EventSends[4].ev = 2 /\ EventSends[4].part = 2 /\ EventSends[4].ok

(***************************************************************************)
(* Claims about the rendering of tool calls, checked under ToolSpec.       *)
(***************************************************************************)
\* C16 (as claimed): every tool call the loop body has finished with whose
\* arguments are empty or are not JSON caused a send of the raw-argument
\* summary (tool name and raw argument string).
C16_RawSummaryDelivered ==
    \A i \in 1..handled :
        (kinds[i].kind = "tool" /\ kinds[i].args \in {"blank", "badjson"})
            => \E k \in 1..Len(log) : log[k].ev = i /\ log[k].what = "tool_raw"

\* C17: an exception raised by the rendering of a tool call never reaches the
\* handlers of the stream's try block, and every tool call the loop body has
\* finished with whose arguments are JSON but make the rendering of its tool
\* raise (a key is missing, or the JSON is not an object) caused exactly one
\* send, of the raw-argument summary.
C17_ToolRenderingFallback ==
    /\ pc \in HandlerPcs => failure_at \in {"please_wait", "open", "iterate", "typing"}
    /\ \A i \in 1..handled :
        (/\ kinds[i].kind = "tool"
         /\ kinds[i].args \in {"missing_key", "not_object"}
         /\ ToolRenderingRaises(kinds[i].tool, kinds[i].args))
            => /\ \E k \in 1..Len(log) : log[k].ev = i /\ log[k].what = "tool_raw"
               /\ Cardinality({k \in 1..Len(log) : log[k].ev = i}) = 1

\* a keyed tool without its key, run_code with a list and a keyed tool with a
\* list were each delivered as raw summary, and the stream ended
C17_Witness ==
    /\ pc = "done"
    /\ handled = 3
    /\ kinds[1].kind = "tool" /\ kinds[1].tool \in KeyedTools /\ kinds[1].args = "missing_key"
    /\ kinds[2].kind = "tool" /\ kinds[2].tool = "run_code"
    /\ kinds[3].kind = "tool" /\ kinds[3].tool \in KeyedTools /\ kinds[3].args = "not_object"
    /\ \A i \in 1..3 : \E k \in 1..Len(log) :
        log[k].ev = i /\ log[k].what = "tool_raw" /\ log[k].ok

(***************************************************************************)
(* Claims about the webhook and the calls it spawns, checked under         *)
(* HookSpec.                                                               *)
(***************************************************************************)
\* C18 (as claimed): the messages a chat receives for two inbound messages
\* are never interleaved: between two messages of one call the chat receives
\* no message of another call.
C18_NoInterleaving ==
    \A i, j, k \in 1..Len(chat) :
        (i < j /\ j < k /\ chat[i].unit = chat[k].unit)
            => chat[j].unit = chat[i].unit

(***************************************************************************)
(* Claims about telegram_webhook, checked under DispatchSpec.              *)
(***************************************************************************)
\* C28: every update that passes the secret validation is answered with
\* {"ok": true}, also when its command handler or the typing signal fails.
C28_AlwaysOk ==
    \A k \in 1..Len(calls) :
        SecretAccepted(webhook_secret, calls[k].header) => calls[k].response = "ok"

\* C29: with a secret configured, an update whose secret header is absent or
\* differs from it is answered 401 and has no effect: no handler runs, no
\* typing signal is sent, no call is spawned, no chat receives a message and
\* no stored state changes.
C29_RejectedBeforeAnyEffect ==
    [][(/\ Len(calls') = Len(calls) + 1
        /\ webhook_secret # "none"
        /\ calls'[Len(calls')].header # webhook_secret)
            => /\ calls'[Len(calls')].response = "401"
               /\ responses' = Append(responses, "401")
               /\ calls'[Len(calls')].handler = "none"
               /\ calls'[Len(calls')].typing = "none"
               /\ ~calls'[Len(calls')].spawned
               /\ UNCHANGED <<units, chat, webhook_secret>>
               /\ UNCHANGED <<splitVars, procVars, routeVars, sinkVars, quoteVars, accountVars, pageVars, shortcutVars>>]_vars

\* with a secret configured, a /logout command without the header and a
\* regular message with a wrong header were both answered 401
C29_Witness ==
    /\ webhook_secret = "s1"
    /\ Len(calls) = 2
    /\ calls[1].header = "absent"
    /\ calls[1].text = <<"/", "l", "o", "g", "o", "u", "t">>
    /\ calls[2].header = "s2"
    /\ calls[2].text = RegularText
    /\ responses = <<"401", "401">>
    /\ units = <<>>

\* the longest command prefix the text starts with
LongestCommand(t) ==
    LET hits == {k \in 1..Len(Commands) : StartsWith(t, Commands[k].prefix)}
    IN  CHOOSE k \in hits : \A j \in hits : Len(Commands[j].prefix) <= Len(Commands[k].prefix)

\* C30: an accepted update with text either ran the handler of the longest
\* command prefix its text starts with and spawned nothing, or, starting
\* with no command prefix, ran no handler and spawned one call; an accepted
\* update without text did neither.
C30_HandlerOrSpawn ==
    \A k \in 1..Len(calls) :
        SecretAccepted(webhook_secret, calls[k].header)
            => IF calls[k].text = NoText
               THEN calls[k].handler = "none" /\ ~calls[k].spawned
               ELSE IF \E c \in 1..Len(Commands) : StartsWith(calls[k].text, Commands[c].prefix)
               THEN /\ calls[k].handler = Commands[LongestCommand(calls[k].text)].handler
                    /\ ~calls[k].spawned
               ELSE /\ calls[k].handler = "none"
                    /\ calls[k].spawned

(***************************************************************************)
(* Claims about get_all_projects, checked under PageSpec.                  *)
(***************************************************************************)
\* C35: get_all_projects terminates with every project once, in page order,
\* whatever pages the backend returns: an iteration that does not end the
\* loop advances it (it never leaves the function in the state it was in, to
\* ask for the same page again), and the list returned is the backend's.
C35_TerminatesWithEveryProject ==
    [][/\ (page_pc = "loop" /\ page_pc' = "loop")
            => <<offset, all_projects>>' # <<offset, all_projects>>
       /\ page_pc' = "returned"
            => all_projects' = [i \in 1..n_projects |-> i]]_vars

(***************************************************************************)
(* Claims about the shortcuts of a user, checked under ShortcutSpec (one   *)
(* call at a time) and RaceSpec (two at a time).                           *)
(***************************************************************************)
\* the two names are equal when case is ignored
EqualIgnoringCase(n1, n2) == Lower(n1) = Lower(n2)

\* the dict of the file differs from dict at most for the names equal to
\* name ignoring case
OthersUnchanged(file, dict, name) ==
    \A n \in ShortcutNames :
        ~EqualIgnoringCase(n, name) => LoadShortcuts(file)[n] = dict[n]

\* C36: with one call at a time the shortcuts are a case-insensitive map.
\* When save_user_shortcut(u, n, a, name) returns, get_shortcut_by_name
\* gives agent a for every name equal to n ignoring case and the other
\* shortcuts are as before.  delete_user_shortcut returns True only for a
\* shortcut that exists, which is then gone while the others are as before;
\* it returns False only for one that does not exist, leaving the file as
\* it was.  get_shortcut_by_name leaves the file as it was.
C36_CaseInsensitiveMap ==
    [][\A w \in 1..Len(workers') :
        (/\ workers'[w].pc = "returned"
         /\ (w > Len(workers) \/ workers[w].pc # "returned"))
            => LET call == workers'[w]
                   before == LoadShortcuts(shortcuts)
               IN  /\ call.op = "save"
                        => /\ call.result = TRUE
                           /\ \A n \in ShortcutNames :
                                EqualIgnoringCase(n, call.name)
                                    => GetShortcutByName(shortcuts', n).agent_id = call.agent
                           /\ OthersUnchanged(shortcuts', before, call.name)
                   /\ (call.op = "delete" /\ call.result = TRUE)
                        => /\ \E n \in ShortcutNames :
                                EqualIgnoringCase(n, call.name) /\ before[n] # NoShortcut
                           /\ \A n \in ShortcutNames :
                                EqualIgnoringCase(n, call.name)
                                    => GetShortcutByName(shortcuts', n) = NoShortcut
                           /\ OthersUnchanged(shortcuts', before, call.name)
                   /\ (call.op = "delete" /\ call.result = FALSE)
                        => /\ \A n \in ShortcutNames :
                                EqualIgnoringCase(n, call.name) => before[n] = NoShortcut
                           /\ shortcuts' = shortcuts
                   /\ call.op = "get"
                        => /\ shortcuts' = shortcuts
                           /\ \A n \in ShortcutNames :
                                EqualIgnoringCase(n, call.name)
                                    => call.result = GetShortcutByName(shortcuts, n)]_vars

\* "m" was saved for agent a1, then "H" for agent a2, and "h" was looked up:
\* it gave agent a2, and "m" is still a shortcut for a1
C36_Witness ==
    /\ Len(workers) = 3
    /\ workers[1].op = "save" /\ workers[1].name = <<"m">> /\ workers[1].agent = "a1"
    /\ workers[2].op = "save" /\ workers[2].name = <<"H">> /\ workers[2].agent = "a2"
    /\ workers[2].pc = "returned"
    /\ workers[3].op = "get" /\ workers[3].name = <<"h">>
    /\ workers[3].result = ShortcutData("a2")
    /\ GetShortcutByName(shortcuts, <<"M">>) = ShortcutData("a1")

\* the call is the only one that saves or deletes a name equal to its own
\* ignoring case
OnlyUpdateOfItsName(w) ==
    \A v \in 1..Len(workers) :
        (v # w /\ workers[v].op # "get")
            => ~EqualIgnoringCase(workers[v].name, workers[w].name)

\* C37: once every call has returned, each update of a name that no other
\* call updates is in the file: a saved shortcut is there with its agent and
\* a deleted one is gone, also when another update ran at the same time.
C37_NoLostUpdate ==
    (\A w \in 1..Len(workers) : workers[w].pc = "returned")
        => \A w \in 1..Len(workers) :
            OnlyUpdateOfItsName(w)
                => /\ workers[w].op = "save"
                        => GetShortcutByName(shortcuts, workers[w].name)
                                = ShortcutData(workers[w].agent)
                   /\ (workers[w].op = "delete" /\ workers[w].result = TRUE)
                        => GetShortcutByName(shortcuts, workers[w].name) = NoShortcut

(***************************************************************************)
(* Claims about the default agent, checked under RouteSpec.                *)
(***************************************************************************)
\* create_default_agent is about to be called
CreationDue == pc = "create_agent"

\* create_default_agent has returned the agent
CreationSucceeded == pc \in {"intro_open", "intro_stream"}

\* create_default_agent has raised
CreationRaised == pc = "create_error"

\* C34: create_default_agent is called only for a 'yes' reply in a chat
\* without an agent, the default agent being offered and not accepted; once
\* it has returned the agent, agent.json of the chat holds that agent and
\* default_agent_accepted is true; when it has raised, agent.json and the
\* preferences are as they were.
C34_DefaultAgentOnce ==
    /\ (CreationDue \/ CreationRaised)
        => /\ message_text = "yes"
           /\ AgentInfo(agent_file, env_agent_id) = NoAgent
           /\ preferences.offered /\ ~preferences.accepted
    /\ CreationSucceeded
        => /\ agent_file = SavedAgent("a2", "Ion")
           /\ preferences.offered /\ preferences.accepted

(***************************************************************************)
(* Claims about /logout and /login, checked under AccountSpec.             *)
(***************************************************************************)
\* C31 (as claimed): a regular message that arrives after a successful
\* /logout and before the next successful /login opens no agent stream and
\* yields only the authentication-required guidance.
C31_NoStreamForLoggedOutArrival ==
    \A t \in 1..Len(tasks) :
        tasks[t].arrived = "logged_out"
            => /\ tasks[t].state \notin {"resolved", "streaming"}
               /\ tasks[t].opened = "not_yet"
               /\ tasks[t].state = "returned" => tasks[t].sent = <<"auth_required">>

\* C31 (amended): what decides is the moment the spawned call reads the
\* credentials (line 548), not the arrival of the message: a call that reads
\* them after a successful /logout and before the next successful /login
\* finds none, never opens a stream and sends the authentication-required
\* guidance first; it sends nothing else unless that request fails, in which
\* case the error report of the outer handler follows.
C31_NoStreamForLoggedOutRead ==
    \A t \in 1..Len(tasks) :
        tasks[t].read = "logged_out"
            => /\ tasks[t].state \in {"returned", "raised"}
               /\ tasks[t].opened = "not_yet"
               /\ tasks[t].sent[1] = "auth_required"
               /\ tasks[t].state = "returned" => tasks[t].sent = <<"auth_required">>
               /\ tasks[t].state = "raised"
                    => tasks[t].sent = <<"auth_required", "background_error">>

\* after a successful /logout two messages arrived; the call of the first
\* read the credentials at once and sent the guidance; the call of the
\* second read them after the next successful /login and opened a stream
C31_Witness ==
    /\ Len(tasks) = 2
    /\ tasks[1].arrived = "logged_out" /\ tasks[1].read = "logged_out"
    /\ tasks[1].state = "returned" /\ tasks[1].sent = <<"auth_required">>
    /\ tasks[2].arrived = "logged_out" /\ tasks[2].read = "logged_in"
    /\ tasks[2].state = "streaming"

(***************************************************************************)
(* Claims about the resolution of credentials and agent, checked under     *)
(* RouteSpec.                                                              *)
(***************************************************************************)
\* the positions of process_message_async from "(please wait)" on
StreamPcs == {"please_wait", "create_stream", "next_event", "typing_check",
              "classify", "send_chunk", "api_error", "other_error",
              "background_error"}

\* C19 (as claimed): for a chat whose agent.json names agent a1 under the
\* name A, a call that has resolved that agent leaves agent.json as it was
\* and renders under the name A.
C19_RoutingReadOnly ==
    agent_id = StoredAgent.agent_id
        => /\ agent_file = StoredAgent
           /\ agent_name = StoredAgent.agent_name

\* C19 (amended): once the agent of the chat is resolved, the only write to
\* the stored routing state is the one of the name check before the stream:
\* it happens only when the backend holds another name for the agent, and
\* writes agent.json with the resolved agent id and that name, which is the
\* name used from then on; agent id, project, credentials and preferences are
\* never written, and from "(please wait)" on nothing of the routing state
\* and neither agent_id nor agent_name changes.
C19_RoutingStateAfterResolution ==
    [][/\ pc = "retrieve_agent"
            => /\ agent_id' = agent_id
               /\ chat_project' = chat_project
               /\ credentials' = credentials
               /\ preferences' = preferences
               /\ agent_file' # agent_file
                    => /\ agent_name' # agent_name
                       /\ agent_file' = [agent_id |-> agent_id,
                                         agent_name |-> agent_name']
       /\ pc \in StreamPcs
            => /\ agent_file' = agent_file
               /\ chat_project' = chat_project
               /\ credentials' = credentials
               /\ preferences' = preferences
               /\ agent_id' = agent_id
               /\ agent_name' = agent_name]_vars

\* the backend held the name B for the agent cached as A: agent.json was
\* rewritten, and a message was delivered under the new name
C19_Witness ==
    /\ pc = "done"
    /\ agent_id = StoredAgent.agent_id
    /\ agent_file = [agent_id |-> StoredAgent.agent_id, agent_name |-> "B"]
    /\ agent_name = "B"
    /\ \E k \in 1..Len(log) : log[k].ev > 0 /\ log[k].ok

\* the reply to the offer of a default agent was handled by this call
DefaultAgentTaken == \E k \in 1..Len(log) : log[k].what = "processing"

\* no stored credentials, or credentials but no agent for the chat (no
\* agent.json, no LETTA_AGENT_ID) and no reply to a pending offer of a
\* default agent
RoutingContextMissing ==
    \/ credentials = "none"
    \/ /\ credentials = "stored"
       /\ agent_file = NoAgent
       /\ env_agent_id = "none"
       /\ ~(/\ message_text = "yes"
            /\ preferences.offered
            /\ (~preferences.accepted \/ DefaultAgentTaken))

\* the guidance message of the missing context
Guidance == IF credentials = "none" THEN "auth_required" ELSE "no_agent"

\* C20 (as claimed): when the routing context is missing, at most one
\* message is sent, the stream is never opened, and the call never raises.
C20_GuidanceWithoutRaising ==
    RoutingContextMissing
        => /\ open_attempts = 0
           /\ Len(log) <= 1
           /\ pc \notin {"background_error", "raised"}

\* C20 (amended): when the routing context is missing, the stream is never
\* opened and no event is pulled; the first request is the guidance message
\* and it is sent once; when Telegram accepts it, it is the only message
\* and the call returns; the call raises only when Telegram refuses the
\* guidance message (the outer except then reports the failed send).
C20_MissingRoutingContext ==
    RoutingContextMissing
        => /\ open_attempts = 0
           /\ n_events = 0
           /\ pc \in {"credentials", "agent_info", "done", "background_error", "raised"}
           /\ Len(log) >= 1 => log[1].what = Guidance
           /\ Cardinality({k \in 1..Len(log) : log[k].what = Guidance}) <= 1
           /\ pc = "done" => log = <<Sent(Guidance, 0, 1, TRUE)>>
           /\ (Len(log) >= 1 /\ log[1].ok) => pc = "done"
           /\ pc \in {"background_error", "raised"}
                => /\ ~log[1].ok
                   /\ failure = "send"

\* a user with credentials, an offered default agent not replied to with
\* "yes", and no agent for the chat, got the one guidance message
C20_Witness ==
    /\ pc = "done"
    /\ RoutingContextMissing
    /\ credentials = "stored"
    /\ preferences.offered /\ ~preferences.accepted
    /\ log = <<Sent("no_agent", 0, 1, TRUE)>>

====
